---------------------------- MODULE Spec2Model ----------------------------
(***************************************************************************)
(* Authentication and authorization core of the report dashboard:          *)
(* utils/user_management.py (password policy, hashing, the login lockout   *)
(* state machine, password change/reset, role assignment, user update and  *)
(* soft delete) and dashboard/auth.py (the role_required gate).            *)
(*                                                                         *)
(* The relational store is the variables users, user_roles and roles.      *)
(* Every function opens its own connection; a statement that reads and a   *)
(* later statement that writes are separate steps of the calling process,  *)
(* so other callers may commit in between (no SELECT ... FOR UPDATE is      *)
(* issued anywhere): authenticate_user, change_password and reset_password *)
(* are each a read step followed by a write step.  update_user,            *)
(* delete_user and assign_role read only whether the row exists, and rows  *)
(* are never removed, so each of them is one step; create_user is the     *)
(* two SELECT COUNT checks followed by the INSERT.  SYSTIMESTAMP columns   *)
(* and modified_by are only ever written by this code and are left out of  *)
(* the state.                                                              *)
(*                                                                         *)
(* The functions are modelled twice.  The first part has the steps that    *)
(* read and write users and user_roles, with the store always answering.   *)
(* The second part has the handlers in full: the login view around         *)
(* authenticate_user, the rows written to user_activity_log, a store that  *)
(* may raise oracledb.Error at any statement, and the constraints the      *)
(* tables are declared with.                                               *)
(***************************************************************************)
EXTENDS Integers, Sequences, FiniteSets, TLC

VARIABLES
    users,        \* table users: user_id -> row
    user_roles,   \* table user_roles: set of <<user_id, role_id>>
    roles,        \* table roles: role_id -> [is_active]
    pc,           \* per caller: where it is inside a call
    loc,          \* per caller: the local variables of the call in progress
    ret,          \* per caller: what its last finished call returned
    streak,       \* history: consecutive wrong-password calls from a fresh row
    committed_fails,  \* history: failed verifications committed since success/reset
    lock_transitions, \* history: how often is_locked went from false to true
    calls,        \* history: how many calls have returned
    commits,      \* history: how many logins have committed their UPDATE
    gate,         \* the last decision of a role_required wrapper
    user_activity_log, \* table user_activity_log: the rows in insertion order
    flash,        \* per caller: the message the login page last showed it
    cause         \* history, per caller: its last call and the branch it returned from

vars == <<users, user_roles, roles, pc, loc, ret,
          streak, committed_fails, lock_transitions, calls, commits, gate,
          user_activity_log, flash, cause>>

hist == <<streak, committed_fails, lock_transitions, calls, commits>>

logvars == <<user_activity_log, flash, cause>>

---------------------------------------------------------------------------
(* Bounds of the model *)

NumSalts == 1
MaxCommitted == 5

Salts == 1..NumSalts

(* Callers.  Spec interleaves the calls of Procs, SpecSeq runs SeqProcs    *)
(* and SpecPar runs ParProcs.                                              *)
Procs == {1, 2}
SeqProcs == {1}
ParN == 5
MaxLog == 1
MaxUsers == 2
MaxCalls == 2
MaxPad == 8
MaxTail == 4
MaxLogins == 2
ParProcs == 1..ParN
AllProcs == Procs \cup ParProcs

---------------------------------------------------------------------------
(* Characters and passwords: a password is a sequence of characters; the   *)
(* backtick is written BACKTICK.                                           *)

Upper == {"A","B","C","D","E","F","G","H","I","J","K","L","M",
          "N","O","P","Q","R","S","T","U","V","W","X","Y","Z"}
Lower == {"a","b","c","d","e","f","g","h","i","j","k","l","m",
          "n","o","p","q","r","s","t","u","v","w","x","y","z"}
Digit == {"0","1","2","3","4","5","6","7","8","9"}
Special == {"!","@","#","$","%","^","&","*","(",")","_","+","-","=","[","]",
            "{","}",";",":","'","\"",",",".","<",">","?","/","\\","|","BACKTICK","~"}

MinPasswordLen == 8
LockThreshold == 5
BcryptRounds == 12

HasChar(password, class) == \E i \in 1..Len(password) : password[i] \in class

(* variant: the digit rule is tested before the two letter rules *)
validate_password_strength_digit_first(password) ==
    IF Len(password) < MinPasswordLen
      THEN <<FALSE, "Password must be at least 8 characters long">>
    ELSE IF ~HasChar(password, Digit)
      THEN <<FALSE, "Password must contain at least one digit">>
    ELSE IF ~HasChar(password, Upper)
      THEN <<FALSE, "Password must contain at least one uppercase letter">>
    ELSE IF ~HasChar(password, Lower)
      THEN <<FALSE, "Password must contain at least one lowercase letter">>
    ELSE IF ~HasChar(password, Special)
      THEN <<FALSE, "Password must contain at least one special character">>
    ELSE <<TRUE, "">>

(* validate_password_strength: (is_valid, error_message), first failure wins *)
validate_password_strength(password) ==
    IF Len(password) < MinPasswordLen
      THEN <<FALSE, "Password must be at least 8 characters long">>
    ELSE IF ~HasChar(password, Upper)
      THEN <<FALSE, "Password must contain at least one uppercase letter">>
    ELSE IF ~HasChar(password, Lower)
      THEN <<FALSE, "Password must contain at least one lowercase letter">>
    ELSE IF ~HasChar(password, Digit)
      THEN <<FALSE, "Password must contain at least one digit">>
    ELSE IF ~HasChar(password, Special)
      THEN <<FALSE, "Password must contain at least one special character">>
    ELSE <<TRUE, "">>

(* validate_email: ^[a-zA-Z0-9._%+-]+@[a-zA-Z0-9.-]+\.[a-zA-Z]{2,}$ on an    *)
(* email given as a sequence of characters                                 *)
Letters == Upper \cup Lower
EmailLocalChars == Letters \cup Digit \cup {".", "_", "%", "+", "-"}
EmailDomainChars == Letters \cup Digit \cup {".", "-"}
MinTldLen == 2

validate_email(email) ==
    \E at \in 1..Len(email), dot \in 1..Len(email) :
       /\ email[at] = "@" /\ email[dot] = "."
       /\ at > 1 /\ dot > at + 1 /\ Len(email) - dot >= MinTldLen
       /\ \A i \in 1..(at - 1) : email[i] \in EmailLocalChars
       /\ \A i \in (at + 1)..(dot - 1) : email[i] \in EmailDomainChars
       /\ \A i \in (dot + 1)..Len(email) : email[i] \in Letters

EmailA == <<"a","@","x",".","i","o">>
EmailB == <<"b","@","x",".","i","o">>
EmailBad == <<"b","@","x">>

PwA == <<"A","b","c","d","e","f","1","!">>
PwB == <<"X","y","z","w","v","u","2","#">>
PwWeak == <<"a","b","c">>
PwEmpty == <<>>

(* bcrypt: the blob carries the salt; the digest is one-way and injective  *)
(* in (password, salt), which is how it is represented.                    *)
HashWith(password, salt) ==
    [alg |-> "2b", rounds |-> BcryptRounds, salt |-> salt,
     digest |-> <<password, salt>>]

WellFormed(password_hash) == password_hash.alg = "2b"

(* variant: a blob bcrypt cannot read is taken to match *)
verify_password_fails_open(password, password_hash) ==
    IF ~WellFormed(password_hash) THEN TRUE
    ELSE HashWith(password, password_hash.salt) = password_hash

(* verify_password: bcrypt.checkpw re-hashes with the blob's salt; any      *)
(* exception (malformed blob) is caught and gives False.                    *)
verify_password(password, password_hash) ==
    IF ~WellFormed(password_hash) THEN FALSE
    ELSE HashWith(password, password_hash.salt) = password_hash

---------------------------------------------------------------------------
(* Values *)

NoneName == "<None>"      \* Python None for a username argument
NoneId == 0               \* Python None for a user_id argument (falsy like 0)
Alice == "alice"
Nobody == "nobody"
AliceId == 1
GhostId == 99

RoleIds == {"ADMIN", "REPORT_ADMIN", "REPORT_MANAGER"}

NoLoc == [op |-> "none"]
Pending == [tag |-> "pending"]
RetNone == [tag |-> "None"]
RetBool(b) == [tag |-> "bool", val |-> b]
RetUser(user_id, role_ids, must_change_password) ==
    [tag |-> "user", user_id |-> user_id, roles |-> role_ids,
     must_change_password |-> must_change_password]

NoFlash == ""

Branch(op, why) == [op |-> op, why |-> why]

NoGate == [outcome |-> "none", user_role_ids |-> {}, required_roles |-> {}]

IdsByUsername(username) == {u \in DOMAIN users : users[u].username = username}

Min(a, b) == IF a < b THEN a ELSE b

---------------------------------------------------------------------------
(* Initial state: one principal, active, unlocked, no failed attempts. *)

InitRow ==
    [username |-> Alice, email |-> EmailA,
     password_hash |-> HashWith(PwA, 1),
     is_active |-> TRUE, is_locked |-> FALSE,
     failed_login_attempts |-> 0, must_change_password |-> FALSE]

Init ==
    /\ users = (AliceId :> InitRow)
    /\ user_roles = {}
    /\ roles = [r \in RoleIds |-> [is_active |-> TRUE]]
    /\ pc = [p \in AllProcs |-> "idle"]
    /\ loc = [p \in AllProcs |-> NoLoc]
    /\ ret = [p \in AllProcs |-> Pending]
    /\ streak = 0
    /\ committed_fails = 0
    /\ lock_transitions = 0
    /\ calls = 0
    /\ commits = 0
    /\ gate = NoGate
    /\ user_activity_log = <<>>
    /\ flash = [p \in AllProcs |-> NoFlash]
    /\ cause = [p \in AllProcs |-> Branch("none", "none")]

---------------------------------------------------------------------------
(* authenticate_user *)

(* variant: a failed verification counts twice *)
FailedAttempts_twice(failed_attempts) == failed_attempts + 2

(* lines 292-293: the counter and lock decision of a failed verification *)
FailedAttempts(failed_attempts) == failed_attempts + 1

(* variant: the lock is decided one attempt late *)
LockAccount_late(failed_attempts) == failed_attempts > LockThreshold

LockAccount(failed_attempts) == failed_attempts >= LockThreshold

(* variant: the failure UPDATE writes the counter only *)
FailRow_counter_only(row, failed_attempts) ==
    [row EXCEPT !.failed_login_attempts = failed_attempts]

(* lines 295-302: UPDATE users SET failed_login_attempts, is_locked *)
FailRow(row, failed_attempts) ==
    [row EXCEPT !.failed_login_attempts = failed_attempts,
                !.is_locked = LockAccount(failed_attempts)]

(* variant: the success UPDATE leaves the counter *)
SuccessRow_keeps_counter(row) == row

(* lines 326-331: UPDATE users SET failed_login_attempts = 0 *)
SuccessRow(row) == [row EXCEPT !.failed_login_attempts = 0]

(* lines 334-342: the roles of the user whose role is active *)
(* variant: the roles are joined without r.is_active = 1 *)
ActiveRoleIds_all(user_id) ==
    {r \in DOMAIN roles : <<user_id, r>> \in user_roles}

ActiveRoleIds(user_id) ==
    {r \in DOMAIN roles : <<user_id, r>> \in user_roles /\ roles[r].is_active}

(* lines 230-287: SELECT the row; not found, inactive and locked return None *)
AuthFetch(p, username, password) ==
    /\ pc[p] = "idle"
    /\ LET ids == IdsByUsername(username) IN
       IF ids = {} \/ ~users[CHOOSE u \in ids : TRUE].is_active
                   \/ users[CHOOSE u \in ids : TRUE].is_locked
       THEN /\ ret' = [ret EXCEPT ![p] = RetNone]
            /\ UNCHANGED <<pc, loc>>
       ELSE LET u == CHOOSE u \in ids : TRUE IN
            /\ pc' = [pc EXCEPT ![p] = "auth_verify"]
            /\ loc' = [loc EXCEPT ![p] =
                        [op |-> "authenticate_user", username |-> username,
                         password |-> password, user_id |-> u,
                         password_hash |-> users[u].password_hash,
                         failed_attempts |-> users[u].failed_login_attempts,
                         must_change_password |-> users[u].must_change_password]]
            /\ ret' = [ret EXCEPT ![p] = Pending]
    /\ UNCHANGED <<users, user_roles, roles, gate>>

(* lines 289-368: verify, then the failure UPDATE or the success UPDATE *)
AuthCommit(p) ==
    /\ pc[p] = "auth_verify"
    /\ LET l == loc[p] IN
       IF ~verify_password(l.password, l.password_hash)
       THEN /\ users' = [users EXCEPT ![l.user_id] =
                           FailRow(@, FailedAttempts(l.failed_attempts))]
            /\ ret' = [ret EXCEPT ![p] = RetNone]
       ELSE /\ users' = [users EXCEPT ![l.user_id] = SuccessRow(@)]
            /\ ret' = [ret EXCEPT ![p] =
                         RetUser(l.user_id, ActiveRoleIds(l.user_id),
                                 l.must_change_password)]
    /\ pc' = [pc EXCEPT ![p] = "idle"]
    /\ loc' = [loc EXCEPT ![p] = NoLoc]
    /\ UNCHANGED <<user_roles, roles, gate>>

---------------------------------------------------------------------------
(* change_password *)

(* lines 434-441: UPDATE users SET password_hash, must_change_password = 0 *)
ChangeRow(row, new_hash) ==
    [row EXCEPT !.password_hash = new_hash, !.must_change_password = FALSE]

(* lines 392-415: validate the new password, SELECT the current hash *)
ChangeFetch(p, user_id, old_password, new_password) ==
    /\ pc[p] = "idle"
    /\ IF ~validate_password_strength(new_password)[1] \/ user_id \notin DOMAIN users
       THEN /\ ret' = [ret EXCEPT ![p] = RetBool(FALSE)]
            /\ UNCHANGED <<pc, loc>>
       ELSE /\ pc' = [pc EXCEPT ![p] = "change_verify"]
            /\ loc' = [loc EXCEPT ![p] =
                        [op |-> "change_password", user_id |-> user_id,
                         old_password |-> old_password,
                         new_password |-> new_password,
                         current_hash |-> users[user_id].password_hash]]
            /\ ret' = [ret EXCEPT ![p] = Pending]
    /\ UNCHANGED <<users, user_roles, roles, gate>>

(* variant: the old password is not verified *)
ChangeCommit_no_verify(p) ==
    /\ pc[p] = "change_verify"
    /\ \E salt \in Salts :
         users' = [users EXCEPT ![loc[p].user_id] =
                     ChangeRow(@, HashWith(loc[p].new_password, salt))]
    /\ ret' = [ret EXCEPT ![p] = RetBool(TRUE)]
    /\ pc' = [pc EXCEPT ![p] = "idle"]
    /\ loc' = [loc EXCEPT ![p] = NoLoc]
    /\ UNCHANGED <<user_roles, roles, gate>>

(* lines 417-456: verify the old password, then store the new hash *)
ChangeCommit(p) ==
    /\ pc[p] = "change_verify"
    /\ LET l == loc[p] IN
       IF ~verify_password(l.old_password, l.current_hash)
       THEN /\ ret' = [ret EXCEPT ![p] = RetBool(FALSE)]
            /\ UNCHANGED users
       ELSE /\ \E salt \in Salts :
                 users' = [users EXCEPT ![l.user_id] =
                             ChangeRow(@, HashWith(l.new_password, salt))]
            /\ ret' = [ret EXCEPT ![p] = RetBool(TRUE)]
    /\ pc' = [pc EXCEPT ![p] = "idle"]
    /\ loc' = [loc EXCEPT ![p] = NoLoc]
    /\ UNCHANGED <<user_roles, roles, gate>>

---------------------------------------------------------------------------
(* reset_password: the second definition (line 883) is the one the module  *)
(* name is bound to; the definition at line 468 is shadowed by it.         *)

(* variant: the reset UPDATE leaves is_locked *)
ResetRow_keeps_lock(row, new_hash, must_change_password) ==
    [row EXCEPT !.password_hash = new_hash,
                !.must_change_password = must_change_password,
                !.failed_login_attempts = 0]

(* lines 931-942: UPDATE users SET password_hash, must_change_password,     *)
(* failed_login_attempts = 0, is_locked = 0 *)
ResetRow(row, new_hash, must_change_password) ==
    [row EXCEPT !.password_hash = new_hash,
                !.must_change_password = must_change_password,
                !.failed_login_attempts = 0,
                !.is_locked = FALSE]

(* lines 912-927: by username when one is given, else by user_id *)
(* variant: the SELECT of reset_password has no WHERE clause *)
ResetTarget_any(username, user_id) == DOMAIN users

ResetTarget(username, user_id) ==
    IF username # NoneName THEN IdsByUsername(username)
    ELSE IF user_id # NoneId THEN {u \in DOMAIN users : u = user_id}
    ELSE {}

ResetAccepts(username, user_id, new_password) ==
    /\ new_password # PwEmpty
    /\ validate_password_strength(new_password)[1]
    /\ ResetTarget(username, user_id) # {}

(* lines 898-929: the checks, then SELECT user_id, username *)
ResetFetch(p, username, user_id, new_password, must_change_password) ==
    /\ pc[p] = "idle"
    /\ IF ~ResetAccepts(username, user_id, new_password)
       THEN /\ ret' = [ret EXCEPT ![p] = RetBool(FALSE)]
            /\ UNCHANGED <<pc, loc>>
       ELSE /\ pc' = [pc EXCEPT ![p] = "reset_update"]
            /\ loc' = [loc EXCEPT ![p] =
                        [op |-> "reset_password",
                         resolved_user_id |->
                            CHOOSE u \in ResetTarget(username, user_id) : TRUE,
                         new_password |-> new_password,
                         must_change_password |-> must_change_password]]
            /\ ret' = [ret EXCEPT ![p] = Pending]
    /\ UNCHANGED <<users, user_roles, roles, gate>>

(* lines 929-956: hash the new password, UPDATE the row, commit *)
ResetCommit(p) ==
    /\ pc[p] = "reset_update"
    /\ \E salt \in Salts :
         users' = [users EXCEPT ![loc[p].resolved_user_id] =
                     ResetRow(@, HashWith(loc[p].new_password, salt),
                              loc[p].must_change_password)]
    /\ ret' = [ret EXCEPT ![p] = RetBool(TRUE)]
    /\ pc' = [pc EXCEPT ![p] = "idle"]
    /\ loc' = [loc EXCEPT ![p] = NoLoc]
    /\ UNCHANGED <<user_roles, roles, gate>>

---------------------------------------------------------------------------
(* update_user, delete_user, assign_role *)

(* An optional argument is <<>> for None and <<v>> for a value. *)
UpdateRow(row, is_active) ==
    IF is_active = <<>> THEN row ELSE [row EXCEPT !.is_active = is_active[1]]

UpdateUser(p, user_id, is_active) ==
    /\ pc[p] = "idle"
    /\ IF user_id \notin DOMAIN users
       THEN /\ ret' = [ret EXCEPT ![p] = RetBool(FALSE)]
            /\ UNCHANGED users
       ELSE /\ users' = [users EXCEPT ![user_id] = UpdateRow(@, is_active)]
            /\ ret' = [ret EXCEPT ![p] = RetBool(TRUE)]
    /\ UNCHANGED <<user_roles, roles, pc, loc, gate>>

(* variant: the UPDATE of delete_user leaves is_active as it is *)
DeleteRow_keeps_active(row) == row

DeleteRow(row) == [row EXCEPT !.is_active = FALSE]

DeleteUser(p, user_id) ==
    /\ pc[p] = "idle"
    /\ IF user_id \notin DOMAIN users
       THEN /\ ret' = [ret EXCEPT ![p] = RetBool(FALSE)]
            /\ UNCHANGED users
       ELSE /\ users' = [users EXCEPT ![user_id] = DeleteRow(@)]
            /\ ret' = [ret EXCEPT ![p] = RetBool(TRUE)]
    /\ UNCHANGED <<user_roles, roles, pc, loc, gate>>

(* The INSERT raises IntegrityError for a pair already present or a role   *)
(* id that is not a row of roles; the handler returns False.               *)
AssignRole(p, user_id, role_id) ==
    /\ pc[p] = "idle"
    /\ IF \/ user_id \notin DOMAIN users
          \/ <<user_id, role_id>> \in user_roles
          \/ role_id \notin DOMAIN roles
       THEN /\ ret' = [ret EXCEPT ![p] = RetBool(FALSE)]
            /\ UNCHANGED user_roles
       ELSE /\ user_roles' = user_roles \cup {<<user_id, role_id>>}
            /\ ret' = [ret EXCEPT ![p] = RetBool(TRUE)]
    /\ UNCHANGED <<users, roles, pc, loc, gate>>

---------------------------------------------------------------------------
(* dashboard: the per-request user loader and the role_required wrapper *)

(* app.py User.has_role: role_name in [r['role_id'] for r in self.roles] *)
has_role(user_role_ids, role_name) == role_name \in user_role_ids

(* variant: every required role is demanded *)
RoleCheck_all_of(user_role_ids, required_roles) ==
    \A role \in required_roles : role \in user_role_ids

(* auth.py line 29: any(role in user_role_ids for role in required_roles) *)
RoleCheck(user_role_ids, required_roles) ==
    \E role \in required_roles : role \in user_role_ids

(* app.py load_user -> get_user_by_id -> get_user_info: the row by id, with *)
(* the role ids of its active roles; no row (or no session id) gives no     *)
(* user, and flask-login then supplies the anonymous user.                  *)
LoadUser(session_user_id) ==
    IF session_user_id # NoneId /\ session_user_id \in DOMAIN users
    THEN [is_authenticated |-> TRUE, roles |-> ActiveRoleIds(session_user_id)]
    ELSE [is_authenticated |-> FALSE, roles |-> {}]

(* variant: an authenticated user passes whatever roles it holds *)
GateOutcome_any_user(current_user, required_roles) ==
    IF ~current_user.is_authenticated THEN "login" ELSE "ran"

(* auth.py lines 19-34: decorated_function.  login_required and the        *)
(* is_authenticated test send an anonymous request to the login page; a    *)
(* user without any required role is sent to the index; else f runs.       *)
GateOutcome(current_user, required_roles) ==
    IF ~current_user.is_authenticated THEN "login"
    ELSE IF ~RoleCheck(current_user.roles, required_roles) THEN "denied"
    ELSE "ran"

Request(p, session_user_id, required_roles) ==
    /\ pc[p] = "idle"
    /\ LET current_user == LoadUser(session_user_id) IN
       gate' = [outcome |-> GateOutcome(current_user, required_roles),
                user_role_ids |-> current_user.roles,
                required_roles |-> required_roles]
    /\ UNCHANGED <<users, user_roles, roles, pc, loc, ret>>

---------------------------------------------------------------------------
(* Inputs *)

LoginNames == {Alice, Nobody}
LoginPasswords == {PwA, PwB}
NewPasswords == {PwA, PwB, PwWeak}
UserIdArgs == {AliceId, GhostId}
ActiveArgs == {<<>>, <<TRUE>>, <<FALSE>>}
ResetNames == {NoneName, Alice}
ResetIds == {NoneId, AliceId}
SpecRoleIds == {"ADMIN"}

Next ==
    \E p \in Procs :
      \/ \E username \in LoginNames, password \in LoginPasswords :
            AuthFetch(p, username, password) /\ UNCHANGED <<hist, logvars>>
      \/ AuthCommit(p) /\ UNCHANGED <<hist, logvars>>
      \/ \E user_id \in UserIdArgs, old \in LoginPasswords, new \in NewPasswords :
            ChangeFetch(p, user_id, old, new) /\ UNCHANGED <<hist, logvars>>
      \/ ChangeCommit(p) /\ UNCHANGED <<hist, logvars>>
      \/ \E username \in ResetNames, user_id \in ResetIds,
            new \in NewPasswords, must \in BOOLEAN :
            ResetFetch(p, username, user_id, new, must) /\ UNCHANGED <<hist, logvars>>
      \/ ResetCommit(p) /\ UNCHANGED <<hist, logvars>>
      \/ \E user_id \in UserIdArgs, is_active \in ActiveArgs :
            UpdateUser(p, user_id, is_active) /\ UNCHANGED <<hist, logvars>>
      \/ \E user_id \in UserIdArgs : DeleteUser(p, user_id) /\ UNCHANGED <<hist, logvars>>
      \/ \E user_id \in UserIdArgs, role_id \in SpecRoleIds :
            AssignRole(p, user_id, role_id) /\ UNCHANGED <<hist, logvars>>

Spec == Init /\ [][Next]_vars

---------------------------------------------------------------------------
(* SpecSeq: one caller, so calls follow one another without interleaving.  *)
(* streak counts the consecutive authenticate_user calls against alice     *)
(* with a wrong password that began at a fresh row (active, unlocked,      *)
(* counter 0); once it is 5, a further call with the right password makes  *)
(* it 6.  Any other call sets it back to 0.                                *)

Fresh(row) == row.is_active /\ ~row.is_locked /\ row.failed_login_attempts = 0

StreakAfter(is_wrong, from_fresh) ==
    IF streak >= 5 THEN (IF is_wrong THEN streak ELSE 6)
    ELSE IF is_wrong /\ (streak > 0 \/ from_fresh) THEN streak + 1
    ELSE 0

SeqAuthFetch(p, username, password) ==
    /\ AuthFetch(p, username, password)
    /\ streak' =
         IF pc'[p] = "auth_verify" THEN streak
         ELSE IF username # Alice THEN 0
         ELSE StreakAfter(~verify_password(password, users[AliceId].password_hash),
                          Fresh(users[AliceId]))

SeqAuthCommit(p) ==
    /\ AuthCommit(p)
    /\ streak' = StreakAfter(~verify_password(loc[p].password, loc[p].password_hash),
                             Fresh(users[loc[p].user_id]))

OtherHist == <<committed_fails, lock_transitions, calls, commits, logvars>>

NextSeq ==
    \E p \in SeqProcs :
      \/ \E username \in LoginNames, password \in LoginPasswords :
            SeqAuthFetch(p, username, password) /\ UNCHANGED OtherHist
      \/ SeqAuthCommit(p) /\ UNCHANGED OtherHist
      \/ \E user_id \in UserIdArgs, old \in LoginPasswords, new \in NewPasswords :
            ChangeFetch(p, user_id, old, new)
            /\ streak' = (IF pc'[p] = "idle" THEN 0 ELSE streak)
            /\ UNCHANGED OtherHist
      \/ ChangeCommit(p) /\ streak' = 0 /\ UNCHANGED OtherHist
      \/ \E username \in ResetNames, user_id \in ResetIds,
            new \in NewPasswords, must \in BOOLEAN :
            ResetFetch(p, username, user_id, new, must)
            /\ streak' = (IF pc'[p] = "idle" THEN 0 ELSE streak)
            /\ UNCHANGED OtherHist
      \/ ResetCommit(p) /\ streak' = 0 /\ UNCHANGED OtherHist
      \/ \E user_id \in UserIdArgs, is_active \in ActiveArgs :
            UpdateUser(p, user_id, is_active)
            /\ streak' = 0 /\ UNCHANGED OtherHist
      \/ \E user_id \in UserIdArgs : 
            DeleteUser(p, user_id) /\ streak' = 0 /\ UNCHANGED OtherHist
      \/ \E user_id \in UserIdArgs, role_id \in SpecRoleIds :
            AssignRole(p, user_id, role_id)
            /\ streak' = 0 /\ UNCHANGED OtherHist

SpecSeq == Init /\ [][NextSeq]_vars

---------------------------------------------------------------------------
(* SpecFails: two callers log in and reset concurrently; committed_fails   *)
(* counts the failed verifications committed since the last successful     *)
(* login or password reset (counted up to MaxCommitted).                   *)

FailsAuthCommit(p) ==
    /\ AuthCommit(p)
    /\ committed_fails' =
         IF ~verify_password(loc[p].password, loc[p].password_hash)
         THEN Min(committed_fails + 1, MaxCommitted)
         ELSE 0

FailsResetCommit(p) == ResetCommit(p) /\ committed_fails' = 0

NextFails ==
    \E p \in Procs :
      \/ \E username \in LoginNames, password \in LoginPasswords :
            AuthFetch(p, username, password) /\ UNCHANGED <<hist, logvars>>
      \/ FailsAuthCommit(p) /\ UNCHANGED <<streak, lock_transitions, calls, commits, logvars>>
      \/ \E new \in NewPasswords, must \in BOOLEAN :
            ResetFetch(p, Alice, NoneId, new, must) /\ UNCHANGED <<hist, logvars>>
      \/ FailsResetCommit(p) /\ UNCHANGED <<streak, lock_transitions, calls, commits, logvars>>

SpecFails == Init /\ [][NextFails]_vars

---------------------------------------------------------------------------
(* SpecPar: ParN callers each make one authenticate_user call against      *)
(* alice with a wrong password, and every call has read the row before     *)
(* the first one commits.                                                  *)

WrongPasswords == {PwB, PwWeak}

NotStarted(p) == pc[p] = "idle" /\ ret[p] = Pending

Finished(p) == pc[p] = "idle" /\ ret[p] # Pending

ParFetch(p) ==
    /\ NotStarted(p)
    /\ \E password \in WrongPasswords : AuthFetch(p, Alice, password)
    /\ UNCHANGED <<hist, logvars>>

ParCommit(p) ==
    /\ \A q \in ParProcs : ~NotStarted(q)
    /\ AuthCommit(p)
    /\ lock_transitions' =
         IF ~users[AliceId].is_locked /\ users'[AliceId].is_locked
         THEN lock_transitions + 1 ELSE lock_transitions
    /\ UNCHANGED <<streak, committed_fails, calls, commits, logvars>>

NextPar == \E p \in ParProcs : ParFetch(p) \/ ParCommit(p)

SpecPar == Init /\ [][NextPar]_vars

---------------------------------------------------------------------------
(* SpecGate: roles are granted, users deactivated and requests pass        *)
(* through role_required with any set of required roles.                   *)

SessionIds == {NoneId, AliceId, GhostId}

NextGate ==
    \E p \in Procs :
      \/ \E user_id \in UserIdArgs, role_id \in RoleIds \cup {"NO_SUCH_ROLE"} :
            AssignRole(p, user_id, role_id) /\ UNCHANGED <<hist, logvars>>
      \/ \E user_id \in UserIdArgs : DeleteUser(p, user_id) /\ UNCHANGED <<hist, logvars>>
      \/ \E session_user_id \in SessionIds, required_roles \in SUBSET RoleIds :
            Request(p, session_user_id, required_roles) /\ UNCHANGED <<hist, logvars>>

SpecGate == Init /\ [][NextGate]_vars

---------------------------------------------------------------------------
(* validate_password_strength on its own: a caller hands it a password and *)
(* keeps the tuple it returns.  The passwords are up to MaxPad spaces (a    *)
(* character of none of the four classes) followed by up to MaxTail         *)
(* characters, one of each class to choose from.                            *)

PolicyChars == {"A", "a", "1", "!"}
Padding(n) == [i \in 1..n |-> " "]
PolicyPasswords ==
    {Padding(n) \o tail : n \in 0..MaxPad,
                          tail \in UNION {[1..k -> PolicyChars] : k \in 0..MaxTail}}

RetTuple(t) == [tag |-> "tuple", val |-> t]

ValidateStrength(p, password) ==
    /\ pc[p] = "idle"
    /\ ret[p] = Pending          \* one call for each password is enough
    /\ loc' = [loc EXCEPT ![p] = [op |-> "validate_password_strength",
                                  password |-> password]]
    /\ ret' = [ret EXCEPT ![p] = RetTuple(validate_password_strength(password))]
    /\ UNCHANGED <<users, user_roles, roles, pc, gate>>

NextPolicy ==
    \E p \in SeqProcs, password \in PolicyPasswords :
       ValidateStrength(p, password) /\ UNCHANGED <<hist, logvars>>

SpecPolicy == Init /\ [][NextPolicy]_vars

---------------------------------------------------------------------------
(* The role-protected routes of dashboard/users.py and dashboard/reports.py: *)
(* each is its view function wrapped by role_required.                      *)

Routes ==
    {"reset_user_password", "create_new_user",
     "create_report", "edit_report", "delete_report"}

(* users.py lines 51 and 98, reports.py lines 32, 88 and 132 *)
RequiredRoles(route) ==
    IF route \in {"reset_user_password", "create_new_user"}
    THEN {"ADMIN", "REPORT_ADMIN"}
    ELSE {"ADMIN", "REPORT_MANAGER"}

Methods == {"GET", "POST"}

(* The persistence operation the view function reaches, for a request      *)
(* method and a form that passes the view's own checks or not.             *)
ViewCalls(route, method, form_ok) ==
    CASE route = "reset_user_password" ->
            IF method = "POST" /\ form_ok THEN "reset_password" ELSE "none"
      [] route = "create_new_user" ->
            IF method = "POST" THEN "create_user" ELSE "none"
      [] route = "create_report" ->
            IF method = "POST" THEN "create_report_config" ELSE "none"
      [] route = "edit_report" ->
            IF method = "POST" /\ form_ok THEN "update_report_config" ELSE "none"
      [] route = "delete_report" ->
            IF method = "POST" THEN "delete_report_config" ELSE "none"

(* One request to a protected route: the user loader, then the wrapper,    *)
(* then, if the wrapper lets it, the view function.                        *)
RouteRequest(p, session_user_id, route, method, form_ok) ==
    /\ pc[p] = "idle"
    /\ LET current_user == LoadUser(session_user_id)
           outcome == GateOutcome(current_user, RequiredRoles(route))
       IN  gate' = [outcome |-> outcome,
                    user_role_ids |-> current_user.roles,
                    required_roles |-> RequiredRoles(route),
                    is_authenticated |-> current_user.is_authenticated,
                    route |-> route,
                    invoked |-> IF outcome = "ran"
                                THEN ViewCalls(route, method, form_ok)
                                ELSE "none"]
    /\ UNCHANGED <<users, user_roles, roles, pc, loc, ret>>

NextRoutes ==
    \E p \in Procs :
      \/ \E user_id \in UserIdArgs, role_id \in RoleIds :
            AssignRole(p, user_id, role_id) /\ UNCHANGED <<hist, logvars>>
      \/ \E user_id \in UserIdArgs : DeleteUser(p, user_id) /\ UNCHANGED <<hist, logvars>>
      \/ \E session_user_id \in SessionIds, route \in Routes, method \in Methods,
            form_ok \in BOOLEAN :
            /\ RouteRequest(p, session_user_id, route, method, form_ok)
            /\ UNCHANGED <<hist, logvars>>

SpecRoutes == Init /\ [][NextRoutes]_vars

---------------------------------------------------------------------------
(* The handlers in full: every database statement of a step may raise      *)
(* oracledb.Error (db_ok = FALSE), which the handler's except clause turns *)
(* into a rollback and the failure return; every handler writes its row of *)
(* user_activity_log through log_user_activity, whose own INSERT may fail  *)
(* (log_res says how).  cause records the branch a call reached; ret       *)
(* and flash keep the outcome of the caller's previous call until the      *)
(* call in progress returns.                                               *)

LogRow(user_id, username, activity_type, activity_description, success, error_message) ==
    [user_id |-> user_id, username |-> username,
     activity_type |-> activity_type,
     activity_description |-> activity_description,
     success |-> success, error_message |-> error_message]

NoError == "<None>"       \* error_message = None

(* What a call of log_user_activity leaves: the rows of the table, and     *)
(* whether an exception reaches the caller.                                *)
NoLog == [raised |-> FALSE, rows |-> user_activity_log]

(* How a call of log_user_activity can go: the row is written; the INSERT  *)
(* or the commit raises oracledb.Error and the rollback of line 643 works;  *)
(* or the connection is lost, so that the rollback in the except clause     *)
(* raises as well.                                                          *)
LogOutcomes == {"written", "failed", "connection_lost"}

(* lines 620-646: INSERT and commit on a connection of its own; an          *)
(* oracledb.Error is caught and logged, then connection.rollback() runs     *)
(* inside the except clause, outside any try: what it raises reaches the    *)
(* caller.                                                                  *)
log_user_activity(row, log_res) ==
    [raised |-> log_res = "connection_lost",
     rows |-> IF log_res = "written" THEN Append(user_activity_log, row)
              ELSE user_activity_log]

(* The end of a call: value is what the return statement gives, failure    *)
(* what the except clause gives when the log call raised.                  *)
Return(p, op, value, failure, why, lg) ==
    /\ ret' = [ret EXCEPT ![p] = IF lg.raised THEN failure ELSE value]
    /\ cause' = [cause EXCEPT ![p] = Branch(op, why)]
    /\ user_activity_log' = lg.rows

(* The end of a call that stored a new password: cause remembers, besides  *)
(* the branch, whose password it was, the new password and the hash it     *)
(* replaced.                                                               *)
PasswordSet(op, user_id, new_password, previous_hash) ==
    [op |-> op, why |-> "success", user_id |-> user_id,
     new_password |-> new_password, previous_hash |-> previous_hash]

ReturnSet(p, op, user_id, new_password, lg) ==
    /\ ret' = [ret EXCEPT ![p] = IF lg.raised THEN RetBool(FALSE) ELSE RetBool(TRUE)]
    /\ cause' = [cause EXCEPT ![p] =
                   PasswordSet(op, user_id, new_password, users[user_id].password_hash)]
    /\ user_activity_log' = lg.rows

(* auth.py login: the messages it flashes *)
RequiredMessage == "Username and password are required."
WelcomeMessage == "Welcome back"
GenericLoginMessage == "Invalid username or password."

(* variant: the returned value tells the caller why the login was refused *)
AuthRefusal_tells(why) == [tag |-> "None", why |-> why]

(* authenticate_user lines 254, 272, 287, 323, 374: every refusal, whatever *)
(* its reason, is return None.                                              *)
AuthRefusal(why) == RetNone

(* auth.py lines 56-72: if user_data: ... else: ... *)
LoginFlash(user_data) ==
    IF user_data.tag = "user" THEN WelcomeMessage ELSE GenericLoginMessage

LoginReturn(p, value, why, lg) ==
    /\ Return(p, "authenticate_user", value, AuthRefusal("store_fault"), why, lg)
    /\ flash' = [flash EXCEPT ![p] = LoginFlash(ret'[p])]

(* variant: a failed login is logged without the user's id *)
LoginFailedRow_anonymous(user_id, username, activity_description, error_message) ==
    LogRow(NoneId, username, "LOGIN_FAILED", activity_description, FALSE, error_message)

LoginFailedRow(user_id, username, activity_description, error_message) ==
    LogRow(user_id, username, "LOGIN_FAILED", activity_description, FALSE, error_message)

(* variant: the lock is looked at before the activation *)
AccountCheck_lock_first(row) ==
    IF row.is_locked THEN "locked"
    ELSE IF ~row.is_active THEN "inactive"
    ELSE "verify"

(* authenticate_user lines 259-287: if not is_active, then if is_locked,   *)
(* before the password is looked at                                        *)
AccountCheck(row) ==
    IF ~row.is_active THEN "inactive"
    ELSE IF row.is_locked THEN "locked"
    ELSE "verify"

(* auth.py lines 43-54 and authenticate_user lines 228-287: the form       *)
(* check, then the SELECT and the not-found, inactive and locked returns.  *)
LoginFetch(p, username, password, db_ok, log_res) ==
    /\ pc[p] = "idle"
    /\ IF username = "" \/ password = PwEmpty
       THEN /\ flash' = [flash EXCEPT ![p] = RequiredMessage]
            /\ cause' = [cause EXCEPT ![p] = Branch("login", "required")]
            /\ UNCHANGED <<pc, loc, ret, user_activity_log>>
       ELSE IF ~db_ok
       THEN /\ LoginReturn(p, AuthRefusal("store_fault"), "store_fault", NoLog)
            /\ UNCHANGED <<pc, loc>>
       ELSE IF IdsByUsername(username) = {}
       THEN /\ LoginReturn(p, AuthRefusal("not_found"), "not_found",
                   log_user_activity(LoginFailedRow(NoneId, username,
                        <<"User not found">>, "User not found"), log_res))
            /\ UNCHANGED <<pc, loc>>
       ELSE LET u == CHOOSE u \in IdsByUsername(username) : TRUE IN
            IF AccountCheck(users[u]) = "inactive"
            THEN /\ LoginReturn(p, AuthRefusal("inactive"), "inactive",
                        log_user_activity(LoginFailedRow(u, username,
                             <<"Account inactive">>, "Account is inactive"), log_res))
                 /\ UNCHANGED <<pc, loc>>
            ELSE IF AccountCheck(users[u]) = "locked"
            THEN /\ LoginReturn(p, AuthRefusal("locked"), "locked",
                        log_user_activity(LoginFailedRow(u, username,
                             <<"Account locked">>, "Account is locked"), log_res))
                 /\ UNCHANGED <<pc, loc>>
            ELSE /\ pc' = [pc EXCEPT ![p] = "auth_verify"]
                 /\ loc' = [loc EXCEPT ![p] =
                        [op |-> "authenticate_user", username |-> username,
                         password |-> password, user_id |-> u,
                         password_hash |-> users[u].password_hash,
                         failed_attempts |-> users[u].failed_login_attempts,
                         must_change_password |-> users[u].must_change_password]]
                 /\ UNCHANGED <<ret, flash, cause, user_activity_log>>
    /\ UNCHANGED <<users, user_roles, roles, gate>>

(* authenticate_user lines 289-377 and auth.py lines 56-72: verify, the    *)
(* failure or success UPDATE and commit, the log row, the return and the   *)
(* message.  A fault of the UPDATE or the commit rolls back.               *)
LoginCommit(p, db_ok, log_res) ==
    /\ pc[p] = "auth_verify"
    /\ LET l == loc[p] IN
       IF ~db_ok
       THEN /\ UNCHANGED users
            /\ LoginReturn(p, AuthRefusal("store_fault"), "store_fault", NoLog)
       ELSE IF ~verify_password(l.password, l.password_hash)
       THEN /\ users' = [users EXCEPT ![l.user_id] =
                           FailRow(@, FailedAttempts(l.failed_attempts))]
            /\ LoginReturn(p, AuthRefusal("invalid_password"), "invalid_password",
                   log_user_activity(LoginFailedRow(l.user_id, l.username,
                        <<"Invalid password (Attempt)", FailedAttempts(l.failed_attempts)>>,
                        "Invalid password"), log_res))
       ELSE /\ users' = [users EXCEPT ![l.user_id] = SuccessRow(@)]
            /\ LoginReturn(p, RetUser(l.user_id, ActiveRoleIds(l.user_id),
                                      l.must_change_password), "success",
                   log_user_activity(LogRow(l.user_id, l.username, "LOGIN_SUCCESS",
                        <<"User logged in successfully">>, TRUE, NoError), log_res))
    /\ pc' = [pc EXCEPT ![p] = "idle"]
    /\ loc' = [loc EXCEPT ![p] = NoLoc]
    /\ UNCHANGED <<user_roles, roles, gate>>

(* update_user lines 1002-1019: the columns the call sets; an optional     *)
(* argument is <<>> for None and <<v>> for a value.                        *)
(* variant: setting is_active also clears the lockout *)
UpdateFields_unlocks(row, email, is_active) ==
    LET r1 == IF email = <<>> THEN row ELSE [row EXCEPT !.email = email[1]]
    IN  IF is_active = <<>> THEN r1
        ELSE [r1 EXCEPT !.is_active = is_active[1],
                        !.is_locked = FALSE, !.failed_login_attempts = 0]

UpdateFields(row, email, is_active) ==
    LET r1 == IF email = <<>> THEN row ELSE [row EXCEPT !.email = email[1]]
    IN  IF is_active = <<>> THEN r1 ELSE [r1 EXCEPT !.is_active = is_active[1]]

(* The users table as the data model declares it: username and email are   *)
(* unique, so a statement that would leave two rows with the same username *)
(* or email raises IntegrityError.                                          *)
(* variant: only the username is declared unique *)
UsersUnique_username_only(rows) ==
    \A u, v \in DOMAIN rows : u # v => rows[u].username # rows[v].username

UsersUnique(rows) ==
    \A u, v \in DOMAIN rows :
       u # v => /\ rows[u].username # rows[v].username
                /\ rows[u].email # rows[v].email

(* update_user lines 985-1052 *)
UpdateUserLogged(p, user_id, email, is_active, db_ok, log_res) ==
    /\ pc[p] = "idle"
    /\ IF ~db_ok
       THEN /\ Return(p, "update_user", RetBool(FALSE), RetBool(FALSE), "store_fault", NoLog)
            /\ UNCHANGED users
       ELSE IF user_id \notin DOMAIN users
       THEN /\ Return(p, "update_user", RetBool(FALSE), RetBool(FALSE), "not_found", NoLog)
            /\ UNCHANGED users
       ELSE IF email # <<>> /\ ~validate_email(email[1])
       THEN /\ Return(p, "update_user", RetBool(FALSE), RetBool(FALSE), "invalid_email", NoLog)
            /\ UNCHANGED users
       ELSE IF email = <<>> /\ is_active = <<>>
       THEN /\ Return(p, "update_user", RetBool(TRUE), RetBool(FALSE), "no_updates", NoLog)
            /\ UNCHANGED users
       ELSE LET rows == [users EXCEPT ![user_id] = UpdateFields(@, email, is_active)] IN
            IF ~UsersUnique(rows)
            THEN /\ Return(p, "update_user", RetBool(FALSE), RetBool(FALSE),
                           "integrity_error", NoLog)
                 /\ UNCHANGED users
            ELSE /\ users' = rows
                 /\ Return(p, "update_user", RetBool(TRUE), RetBool(FALSE), "success",
                       log_user_activity(LogRow(user_id, users[user_id].username,
                            "USER_UPDATED", <<"User information updated">>,
                            TRUE, NoError), log_res))
    /\ UNCHANGED <<user_roles, roles, pc, loc, gate, flash>>

(* delete_user lines 1066-1109 *)
DeleteUserLogged(p, user_id, db_ok, log_res) ==
    /\ pc[p] = "idle"
    /\ IF ~db_ok
       THEN /\ Return(p, "delete_user", RetBool(FALSE), RetBool(FALSE), "store_fault", NoLog)
            /\ UNCHANGED users
       ELSE IF user_id \notin DOMAIN users
       THEN /\ Return(p, "delete_user", RetBool(FALSE), RetBool(FALSE), "not_found", NoLog)
            /\ UNCHANGED users
       ELSE /\ users' = [users EXCEPT ![user_id] = DeleteRow(@)]
            /\ Return(p, "delete_user", RetBool(TRUE), RetBool(FALSE), "success",
                  log_user_activity(LogRow(user_id, users[user_id].username,
                       "USER_DELETED", <<"User deactivated">>, TRUE, NoError), log_res))
    /\ UNCHANGED <<user_roles, roles, pc, loc, gate, flash>>

(* variant: the row is fetched first, the policy is checked afterwards *)
ChangeCheck_store_first(new_password, db_ok, found) ==
    IF ~db_ok THEN "store_fault"
    ELSE IF ~found THEN "not_found"
    ELSE IF ~validate_password_strength(new_password)[1] THEN "weak_password"
    ELSE "verify"

(* change_password lines 394-413: the policy check (394-398) comes before *)
(* get_db_connection (400) and the SELECT (404-413)                        *)
ChangeCheck(new_password, db_ok, found) ==
    IF ~validate_password_strength(new_password)[1] THEN "weak_password"
    ELSE IF ~db_ok THEN "store_fault"
    ELSE IF ~found THEN "not_found"
    ELSE "verify"

(* change_password lines 392-415: the policy check, then the SELECT *)
ChangeFetchLogged(p, user_id, old_password, new_password, db_ok) ==
    /\ pc[p] = "idle"
    /\ LET check == ChangeCheck(new_password, db_ok, user_id \in DOMAIN users) IN
       IF check # "verify"
       THEN /\ Return(p, "change_password", RetBool(FALSE), RetBool(FALSE), check, NoLog)
            /\ UNCHANGED <<pc, loc>>
       ELSE /\ pc' = [pc EXCEPT ![p] = "change_verify"]
            /\ loc' = [loc EXCEPT ![p] =
                        [op |-> "change_password", user_id |-> user_id,
                         username |-> users[user_id].username,
                         old_password |-> old_password,
                         new_password |-> new_password,
                         current_hash |-> users[user_id].password_hash]]
            /\ UNCHANGED <<ret, cause, user_activity_log>>
    /\ UNCHANGED <<users, user_roles, roles, gate, flash>>

(* change_password lines 417-465 *)
ChangeCommitLogged(p, db_ok, log_res) ==
    /\ pc[p] = "change_verify"
    /\ LET l == loc[p] IN
       IF ~verify_password(l.old_password, l.current_hash)
       THEN /\ UNCHANGED users
            /\ Return(p, "change_password", RetBool(FALSE), RetBool(FALSE),
                      "invalid_current_password",
                      log_user_activity(LogRow(l.user_id, l.username,
                           "PASSWORD_CHANGE_FAILED", <<"Invalid current password">>,
                           FALSE, "Current password is incorrect"), log_res))
       ELSE IF ~db_ok
       THEN /\ UNCHANGED users
            /\ Return(p, "change_password", RetBool(FALSE), RetBool(FALSE),
                      "store_fault", NoLog)
       ELSE /\ \E salt \in Salts :
                 users' = [users EXCEPT ![l.user_id] =
                             ChangeRow(@, HashWith(l.new_password, salt))]
            /\ ReturnSet(p, "change_password", l.user_id, l.new_password,
                      log_user_activity(LogRow(l.user_id, l.username,
                           "PASSWORD_CHANGED", <<"Password changed successfully">>,
                           TRUE, NoError), log_res))
    /\ pc' = [pc EXCEPT ![p] = "idle"]
    /\ loc' = [loc EXCEPT ![p] = NoLoc]
    /\ UNCHANGED <<user_roles, roles, gate, flash>>

System == "SYSTEM"        \* the default of changed_by (line 884)

(* variant: the record does not say who reset the password *)
ResetDescription_anonymous(changed_by) == <<"Password reset">>

(* reset_password line 951: f'Password reset by {changed_by}' *)
ResetDescription(changed_by) == <<"Password reset by", changed_by>>

(* reset_password lines 898-927 *)
ResetFetchLogged(p, username, user_id, new_password, changed_by, must_change_password, db_ok) ==
    /\ pc[p] = "idle"
    /\ IF new_password = PwEmpty
       THEN /\ Return(p, "reset_password", RetBool(FALSE), RetBool(FALSE),
                      "required", NoLog)
            /\ UNCHANGED <<pc, loc>>
       ELSE IF ~validate_password_strength(new_password)[1]
       THEN /\ Return(p, "reset_password", RetBool(FALSE), RetBool(FALSE),
                      "weak_password", NoLog)
            /\ UNCHANGED <<pc, loc>>
       ELSE IF ~db_ok
       THEN /\ Return(p, "reset_password", RetBool(FALSE), RetBool(FALSE),
                      "store_fault", NoLog)
            /\ UNCHANGED <<pc, loc>>
       ELSE IF ResetTarget(username, user_id) = {}
       THEN /\ Return(p, "reset_password", RetBool(FALSE), RetBool(FALSE),
                      "not_found", NoLog)
            /\ UNCHANGED <<pc, loc>>
       ELSE LET u == CHOOSE u \in ResetTarget(username, user_id) : TRUE IN
            /\ pc' = [pc EXCEPT ![p] = "reset_update"]
            /\ loc' = [loc EXCEPT ![p] =
                        [op |-> "reset_password", resolved_user_id |-> u,
                         resolved_username |-> users[u].username,
                         new_password |-> new_password,
                         changed_by |-> changed_by,
                         must_change_password |-> must_change_password]]
            /\ UNCHANGED <<ret, cause, user_activity_log>>
    /\ UNCHANGED <<users, user_roles, roles, gate, flash>>

(* reset_password lines 929-965 *)
ResetCommitLogged(p, db_ok, log_res) ==
    /\ pc[p] = "reset_update"
    /\ LET l == loc[p] IN
       IF ~db_ok
       THEN /\ UNCHANGED users
            /\ Return(p, "reset_password", RetBool(FALSE), RetBool(FALSE),
                      "store_fault", NoLog)
       ELSE /\ \E salt \in Salts :
                 users' = [users EXCEPT ![l.resolved_user_id] =
                             ResetRow(@, HashWith(l.new_password, salt),
                                      l.must_change_password)]
            /\ ReturnSet(p, "reset_password", l.resolved_user_id, l.new_password,
                      log_user_activity(LogRow(l.resolved_user_id, l.resolved_username,
                           "PASSWORD_RESET", ResetDescription(l.changed_by),
                           TRUE, NoError),
                           log_res))
    /\ pc' = [pc EXCEPT ![p] = "idle"]
    /\ loc' = [loc EXCEPT ![p] = NoLoc]
    /\ UNCHANGED <<user_roles, roles, gate, flash>>

(* The user_roles table as the data model declares it: a (user, role) pair *)
(* exists at most once and names a row of roles, so the INSERT of a pair   *)
(* already present, or of an unknown role, raises IntegrityError.          *)
UserRolesRejects(user_id, role_id) ==
    <<user_id, role_id>> \in user_roles \/ role_id \notin DOMAIN roles

(* variant: re-assigning a role the user holds is reported as success *)
AssignRejection_idempotent(role_id) == RetBool(TRUE)

(* assign_role lines 590-592: except oracledb.IntegrityError: return False *)
AssignRejection(role_id) == RetBool(FALSE)

(* assign_role lines 554-600: SELECT username, INSERT, commit, log row;    *)
(* IntegrityError returns False before anything is logged.                 *)
AssignRoleLogged(p, user_id, role_id, db_ok, log_res) ==
    /\ pc[p] = "idle"
    /\ IF ~db_ok
       THEN /\ Return(p, "assign_role", RetBool(FALSE), RetBool(FALSE),
                      "store_fault", NoLog)
            /\ UNCHANGED user_roles
       ELSE IF user_id \notin DOMAIN users
       THEN /\ Return(p, "assign_role", RetBool(FALSE), RetBool(FALSE),
                      "not_found", NoLog)
            /\ UNCHANGED user_roles
       ELSE IF UserRolesRejects(user_id, role_id)
       THEN /\ Return(p, "assign_role", AssignRejection(role_id), RetBool(FALSE),
                      IF <<user_id, role_id>> \in user_roles
                      THEN "already_assigned" ELSE "unknown_role", NoLog)
            /\ UNCHANGED user_roles
       ELSE /\ user_roles' = user_roles \cup {<<user_id, role_id>>}
            /\ Return(p, "assign_role", RetBool(TRUE), RetBool(FALSE), "success",
                      log_user_activity(LogRow(user_id, users[user_id].username,
                           "ROLE_ASSIGNED", <<"Role assigned", role_id>>,
                           TRUE, NoError), log_res))
    /\ UNCHANGED <<users, roles, pc, loc, gate, flash>>

(* create_user: the row the INSERT of lines 163-174 adds; is_active,       *)
(* is_locked and failed_login_attempts take the column defaults.           *)
NewRow(username, email, password_hash, must_change_password) ==
    [username |-> username, email |-> email, password_hash |-> password_hash,
     is_active |-> TRUE, is_locked |-> FALSE,
     failed_login_attempts |-> 0, must_change_password |-> must_change_password]

Max(S) == CHOOSE x \in S : \A y \in S : y <= x

(* RETURNING user_id: the store numbers the rows *)
NextUserId == Max(DOMAIN users) + 1

RetId(user_id) == [tag |-> "id", val |-> user_id]

(* variant: the password policy is checked before the email format *)
CreateCheck_password_first(username, email, password, db_ok) ==
    IF username = "" \/ email = <<>> \/ password = PwEmpty THEN "required"
    ELSE IF ~validate_password_strength(password)[1] THEN "weak_password"
    ELSE IF ~validate_email(email) THEN "invalid_email"
    ELSE IF ~db_ok THEN "store_fault"
    ELSE IF \E u \in DOMAIN users : users[u].username = username THEN "username_exists"
    ELSE IF \E u \in DOMAIN users : users[u].email = email THEN "email_exists"
    ELSE "insert"

(* create_user lines 124-160: the checks in the order of the code: the     *)
(* required arguments (124), the email format (129), the password policy   *)
(* (134), the connection (143), SELECT COUNT by username (147-149) and by  *)
(* email (155-157).                                                        *)
CreateCheck(username, email, password, db_ok) ==
    IF username = "" \/ email = <<>> \/ password = PwEmpty THEN "required"
    ELSE IF ~validate_email(email) THEN "invalid_email"
    ELSE IF ~validate_password_strength(password)[1] THEN "weak_password"
    ELSE IF ~db_ok THEN "store_fault"
    ELSE IF \E u \in DOMAIN users : users[u].username = username THEN "username_exists"
    ELSE IF \E u \in DOMAIN users : users[u].email = email THEN "email_exists"
    ELSE "insert"

(* create_user lines 121-160: the argument checks, then the SELECT COUNT   *)
(* by username and by email.                                               *)
CreateFetch(p, username, email, password, role_ids, must_change_password, db_ok) ==
    /\ pc[p] = "idle"
    /\ LET check == CreateCheck(username, email, password, db_ok) IN
       IF check # "insert"
       THEN /\ Return(p, "create_user", RetNone, RetNone, check, NoLog)
            /\ UNCHANGED <<pc, loc>>
       ELSE /\ pc' = [pc EXCEPT ![p] = "create_insert"]
            /\ \E salt \in Salts :
                 loc' = [loc EXCEPT ![p] =
                        [op |-> "create_user", username |-> username,
                         email |-> email,
                         password_hash |-> HashWith(password, salt),
                         role_ids |-> role_ids,
                         must_change_password |-> must_change_password]]
            /\ UNCHANGED <<ret, cause, user_activity_log>>
    /\ UNCHANGED <<users, user_roles, roles, gate, flash>>

(* create_user lines 162-211: INSERT the user, INSERT its roles (an         *)
(* IntegrityError of a role is skipped), write the log row, commit.  A     *)
(* fault of the INSERT (db_ok) or of the commit (commit_ok) rolls back;    *)
(* the log row, written on another connection before the commit, stays.    *)
CreateCommit(p, db_ok, commit_ok, log_res) ==
    /\ pc[p] = "create_insert"
    /\ LET l == loc[p]
           user_id == NextUserId
           rows == [u \in DOMAIN users \cup {user_id} |->
                      IF u = user_id
                      THEN NewRow(l.username, l.email, l.password_hash,
                                  l.must_change_password)
                      ELSE users[u]]
           lg == log_user_activity(LogRow(user_id, l.username, "USER_CREATED",
                      <<"User created">>, TRUE, NoError), log_res)
       IN
       IF ~db_ok \/ ~UsersUnique(rows)
       THEN /\ UNCHANGED <<users, user_roles>>
            /\ Return(p, "create_user", RetNone, RetNone,
                      IF ~db_ok THEN "store_fault" ELSE "integrity_error", NoLog)
       ELSE IF lg.raised
       THEN /\ UNCHANGED <<users, user_roles>>
            /\ Return(p, "create_user", RetId(user_id), RetNone, "success", lg)
       ELSE IF ~commit_ok
       THEN /\ UNCHANGED <<users, user_roles>>
            /\ Return(p, "create_user", RetNone, RetNone, "store_fault", lg)
       ELSE /\ users' = rows
            /\ user_roles' = user_roles \cup
                  {<<user_id, r>> : r \in l.role_ids \cap DOMAIN roles}
            /\ Return(p, "create_user", RetId(user_id), RetNone, "success", lg)
    /\ pc' = [pc EXCEPT ![p] = "idle"]
    /\ loc' = [loc EXCEPT ![p] = NoLoc]
    /\ UNCHANGED <<roles, gate, flash>>

---------------------------------------------------------------------------
(* SpecLogin: one caller posts the login form, call after call, while an   *)
(* administrator deactivates and reactivates users; any statement may      *)
(* fail.  The run is followed until user_activity_log holds MaxLog rows.   *)

FormNames == {Alice, Nobody, ""}
AdminProcs == Procs \ SeqProcs
LogBounded == Len(user_activity_log') <= MaxLog

NextLogin ==
    \E db_ok \in BOOLEAN, log_res \in LogOutcomes :
      \/ \E p \in SeqProcs, username \in FormNames, password \in LoginPasswords :
            /\ LoginFetch(p, username, password, db_ok, log_res)
            /\ LogBounded /\ UNCHANGED hist
      \/ \E p \in SeqProcs :
            LoginCommit(p, db_ok, log_res) /\ LogBounded /\ UNCHANGED hist
      \/ \E p \in AdminProcs, user_id \in UserIdArgs :
            /\ DeleteUserLogged(p, user_id, db_ok, log_res)
            /\ LogBounded /\ UNCHANGED hist
      \/ \E p \in AdminProcs, user_id \in UserIdArgs, is_active \in ActiveArgs :
            /\ UpdateUserLogged(p, user_id, <<>>, is_active, db_ok, log_res)
            /\ LogBounded /\ UNCHANGED hist

SpecLogin == Init /\ [][NextLogin]_vars

---------------------------------------------------------------------------
(* SpecOps: every handler, with failing statements and failing log writes: *)
(* MaxCalls calls, one after another.                                      *)

Bob == "bob"
CreateNames == {Alice, Bob}
CreateEmails == {EmailA, EmailB, EmailBad}
CreatePasswords == {PwA, PwWeak}
CreateRoles == {{}, {"ADMIN"}}
AssignRoleIds == {"ADMIN", "NO_SUCH_ROLE"}
NoHist == <<streak, committed_fails, lock_transitions, commits>>

(* a step that starts a call without ending it, and one that ends a call *)
Starts(p) == pc'[p] # "idle" /\ UNCHANGED calls
Ends(p) ==
    /\ pc'[p] = "idle"
    /\ calls < MaxCalls
    /\ calls' = calls + 1
    /\ Cardinality(DOMAIN users') <= MaxUsers
Step(p) == (Starts(p) \/ Ends(p)) /\ UNCHANGED NoHist

NextOps ==
    \E p \in SeqProcs, db_ok \in BOOLEAN, log_res \in LogOutcomes :
      \/ \E username \in LoginNames, password \in LoginPasswords :
            /\ LoginFetch(p, username, password, db_ok, log_res)
            /\ Step(p)
      \/ LoginCommit(p, db_ok, log_res) /\ Step(p)
      \/ \E user_id \in UserIdArgs, old \in LoginPasswords, new \in NewPasswords :
            /\ ChangeFetchLogged(p, user_id, old, new, db_ok)
            /\ Step(p)
      \/ ChangeCommitLogged(p, db_ok, log_res) /\ Step(p)
      \/ \E username \in ResetNames, user_id \in ResetIds, new \in NewPasswords :
            /\ ResetFetchLogged(p, username, user_id, new, System, TRUE, db_ok)
            /\ Step(p)
      \/ ResetCommitLogged(p, db_ok, log_res) /\ Step(p)
      \/ \E user_id \in UserIdArgs, role_id \in AssignRoleIds :
            /\ AssignRoleLogged(p, user_id, role_id, db_ok, log_res)
            /\ Step(p)
      \/ \E username \in CreateNames, email \in CreateEmails,
            password \in CreatePasswords, role_ids \in CreateRoles :
            /\ CreateFetch(p, username, email, password, role_ids, FALSE, db_ok)
            /\ Step(p)
      \/ \E commit_ok \in BOOLEAN :
            /\ CreateCommit(p, db_ok, commit_ok, log_res)
            /\ Step(p)
      \/ \E user_id \in UserIdArgs, is_active \in ActiveArgs :
            /\ UpdateUserLogged(p, user_id, <<>>, is_active, db_ok, log_res)
            /\ Step(p)
      \/ \E user_id \in UserIdArgs :
            /\ DeleteUserLogged(p, user_id, db_ok, log_res)
            /\ Step(p)

SpecOps == Init /\ [][NextOps]_vars

(* The same calls, for a store in which alice already holds a role. *)
InitAssigned ==
    /\ users = (AliceId :> InitRow)
    /\ user_roles = {<<AliceId, "ADMIN">>}
    /\ roles = [r \in RoleIds |-> [is_active |-> TRUE]]
    /\ pc = [p \in AllProcs |-> "idle"]
    /\ loc = [p \in AllProcs |-> NoLoc]
    /\ ret = [p \in AllProcs |-> Pending]
    /\ streak = 0
    /\ committed_fails = 0
    /\ lock_transitions = 0
    /\ calls = 0
    /\ commits = 0
    /\ gate = NoGate
    /\ user_activity_log = <<>>
    /\ flash = [p \in AllProcs |-> NoFlash]
    /\ cause = [p \in AllProcs |-> Branch("none", "none")]

SpecAssigned == InitAssigned /\ [][NextOps]_vars

(* The same calls, for a store in which alice has been locked out by       *)
(* LockThreshold failed logins in a row.                                   *)
InitLocked ==
    /\ users = (AliceId :> [InitRow EXCEPT !.failed_login_attempts = LockThreshold,
                                           !.is_locked = TRUE])
    /\ user_roles = {}
    /\ roles = [r \in RoleIds |-> [is_active |-> TRUE]]
    /\ pc = [p \in AllProcs |-> "idle"]
    /\ loc = [p \in AllProcs |-> NoLoc]
    /\ ret = [p \in AllProcs |-> Pending]
    /\ streak = 0
    /\ committed_fails = 0
    /\ lock_transitions = 0
    /\ calls = 0
    /\ commits = 0
    /\ gate = NoGate
    /\ user_activity_log = <<>>
    /\ flash = [p \in AllProcs |-> NoFlash]
    /\ cause = [p \in AllProcs |-> Branch("none", "none")]

SpecLocked == InitLocked /\ [][NextOps]_vars

(* The same calls, for a store in which alice's password_hash is not a     *)
(* bcrypt blob: the digest of another scheme, or an empty column.          *)
CorruptHashes ==
    {[alg |-> "md5", rounds |-> 0, salt |-> 0, digest |-> <<PwA, 0>>],
     [alg |-> "NULL", rounds |-> 0, salt |-> 0, digest |-> <<>>]}

InitCorrupt ==
    /\ users \in {(AliceId :> [InitRow EXCEPT !.password_hash = h]) : h \in CorruptHashes}
    /\ user_roles = {}
    /\ roles = [r \in RoleIds |-> [is_active |-> TRUE]]
    /\ pc = [p \in AllProcs |-> "idle"]
    /\ loc = [p \in AllProcs |-> NoLoc]
    /\ ret = [p \in AllProcs |-> Pending]
    /\ streak = 0
    /\ committed_fails = 0
    /\ lock_transitions = 0
    /\ calls = 0
    /\ commits = 0
    /\ gate = NoGate
    /\ user_activity_log = <<>>
    /\ flash = [p \in AllProcs |-> NoFlash]
    /\ cause = [p \in AllProcs |-> Branch("none", "none")]

SpecCorrupt == InitCorrupt /\ [][NextOps]_vars

(* The same calls, for a store in which alice holds two roles, one of      *)
(* which has been deactivated in the roles table.                          *)
InitInactiveRole ==
    /\ users = (AliceId :> InitRow)
    /\ user_roles = {<<AliceId, "REPORT_ADMIN">>, <<AliceId, "REPORT_MANAGER">>}
    /\ roles = [r \in RoleIds |-> [is_active |-> r # "REPORT_MANAGER"]]
    /\ pc = [p \in AllProcs |-> "idle"]
    /\ loc = [p \in AllProcs |-> NoLoc]
    /\ ret = [p \in AllProcs |-> Pending]
    /\ streak = 0
    /\ committed_fails = 0
    /\ lock_transitions = 0
    /\ calls = 0
    /\ commits = 0
    /\ gate = NoGate
    /\ user_activity_log = <<>>
    /\ flash = [p \in AllProcs |-> NoFlash]
    /\ cause = [p \in AllProcs |-> Branch("none", "none")]

SpecInactiveRole == InitInactiveRole /\ [][NextOps]_vars

(* One caller and two users, alice and bob: the calls that name a user,    *)
(* for either of them.                                                     *)
BobId == 2
BobRow ==
    [InitRow EXCEPT !.username = Bob, !.email = EmailB,
                    !.password_hash = HashWith(PwB, 1)]

InitTwoUsers ==
    /\ users = (AliceId :> InitRow) @@ (BobId :> BobRow)
    /\ user_roles = {}
    /\ roles = [r \in RoleIds |-> [is_active |-> TRUE]]
    /\ pc = [p \in AllProcs |-> "idle"]
    /\ loc = [p \in AllProcs |-> NoLoc]
    /\ ret = [p \in AllProcs |-> Pending]
    /\ streak = 0
    /\ committed_fails = 0
    /\ lock_transitions = 0
    /\ calls = 0
    /\ commits = 0
    /\ gate = NoGate
    /\ user_activity_log = <<>>
    /\ flash = [p \in AllProcs |-> NoFlash]
    /\ cause = [p \in AllProcs |-> Branch("none", "none")]

TwoNames == {Alice, Bob}
TwoIds == {AliceId, BobId}

NextTwoUsers ==
    \E p \in SeqProcs, db_ok \in BOOLEAN, log_res \in LogOutcomes :
      \/ \E username \in TwoNames, password \in LoginPasswords :
            /\ LoginFetch(p, username, password, db_ok, log_res)
            /\ Step(p)
      \/ LoginCommit(p, db_ok, log_res) /\ Step(p)
      \/ \E user_id \in TwoIds, old \in LoginPasswords, new \in NewPasswords :
            /\ ChangeFetchLogged(p, user_id, old, new, db_ok)
            /\ Step(p)
      \/ ChangeCommitLogged(p, db_ok, log_res) /\ Step(p)
      \/ \E username \in TwoNames \cup {NoneName}, user_id \in TwoIds \cup {NoneId},
            new \in NewPasswords :
            /\ ResetFetchLogged(p, username, user_id, new, System, TRUE, db_ok)
            /\ Step(p)
      \/ ResetCommitLogged(p, db_ok, log_res) /\ Step(p)
      \/ \E user_id \in TwoIds, role_id \in AssignRoleIds :
            /\ AssignRoleLogged(p, user_id, role_id, db_ok, log_res)
            /\ Step(p)

SpecTwoUsers == InitTwoUsers /\ [][NextTwoUsers]_vars

(* Two callers whose calls of create_user and update_user interleave. *)
UserIds == 1..MaxUsers
EmailArgs == {<<>>, <<EmailA>>, <<EmailB>>}
UsersBounded == Cardinality(DOMAIN users') <= MaxUsers

NextUsers ==
    \E p \in Procs, db_ok \in BOOLEAN, log_res \in LogOutcomes :
      \/ \E username \in CreateNames, email \in CreateEmails :
            /\ CreateFetch(p, username, email, PwA, {}, FALSE, db_ok)
            /\ LogBounded /\ UNCHANGED hist
      \/ \E commit_ok \in BOOLEAN :
            /\ CreateCommit(p, db_ok, commit_ok, log_res)
            /\ UsersBounded /\ LogBounded /\ UNCHANGED hist
      \/ \E user_id \in UserIds, email \in EmailArgs :
            /\ UpdateUserLogged(p, user_id, email, <<>>, db_ok, log_res)
            /\ LogBounded /\ UNCHANGED hist

SpecUsers == Init /\ [][NextUsers]_vars

(* authenticate_user with its log call as a step of its own: the UPDATE is  *)
(* committed on the caller's connection (lines 295-304, 326-345), and the   *)
(* row of user_activity_log is written afterwards, by log_user_activity on  *)
(* another connection (lines 309-318, 348-356), so that other callers may   *)
(* commit and log in between.  The row carries, as history, the position    *)
(* of its login among the commits.                                          *)
CommittedRow(row, commit_no) ==
    [user_id |-> row.user_id, username |-> row.username,
     activity_type |-> row.activity_type,
     activity_description |-> row.activity_description,
     success |-> row.success, error_message |-> row.error_message,
     commit_no |-> commit_no]

(* lines 289-304 and 325-345: verify, UPDATE, commit *)
LoginWrite(p) ==
    /\ pc[p] = "auth_verify"
    /\ commits' = commits + 1
    /\ LET l == loc[p]
           matches == verify_password(l.password, l.password_hash)
           n == FailedAttempts(l.failed_attempts)
       IN  /\ users' = [users EXCEPT ![l.user_id] =
                          IF matches THEN SuccessRow(@) ELSE FailRow(@, n)]
           /\ loc' = [loc EXCEPT ![p] =
                 [op |-> "authenticate_user", username |-> l.username,
                  user_id |-> l.user_id,
                  why |-> IF matches THEN "success" ELSE "invalid_password",
                  value |-> IF matches
                            THEN RetUser(l.user_id, ActiveRoleIds(l.user_id),
                                         l.must_change_password)
                            ELSE AuthRefusal("invalid_password"),
                  row |-> CommittedRow(
                            IF matches
                            THEN LogRow(l.user_id, l.username, "LOGIN_SUCCESS",
                                        <<"User logged in successfully">>, TRUE, NoError)
                            ELSE LoginFailedRow(l.user_id, l.username,
                                        <<"Invalid password (Attempt)", n>>,
                                        "Invalid password"),
                            commits + 1)]]
    /\ pc' = [pc EXCEPT ![p] = "auth_log"]
    /\ UNCHANGED <<user_roles, roles, gate, ret, flash, cause, user_activity_log>>

(* lines 309-323 and 348-368: log_user_activity, then return *)
LoginLog(p, log_res) ==
    /\ pc[p] = "auth_log"
    /\ LoginReturn(p, loc[p].value, loc[p].why, log_user_activity(loc[p].row, log_res))
    /\ pc' = [pc EXCEPT ![p] = "idle"]
    /\ loc' = [loc EXCEPT ![p] = NoLoc]
    /\ UNCHANGED <<users, user_roles, roles, gate>>

(* Two callers log in as alice, MaxLogins times between them. *)
OtherVars == <<streak, committed_fails, lock_transitions, calls>>

NextLogOrder ==
    \E p \in Procs, log_res \in LogOutcomes :
      \/ \E password \in LoginPasswords :
            /\ LoginFetch(p, Alice, password, TRUE, log_res)
            /\ UNCHANGED hist
      \/ LoginWrite(p) /\ commits < MaxLogins /\ UNCHANGED OtherVars
      \/ LoginLog(p, log_res) /\ UNCHANGED hist

SpecLogOrder == Init /\ [][NextLogOrder]_vars

---------------------------------------------------------------------------
(* Properties *)


(* a caller's step that ends its authenticate_user call in the failure     *)
(* UPDATE; post is the counter value that UPDATE writes                    *)
FailedVerification(p, u) ==
    /\ pc[p] = "auth_verify"
    /\ pc'[p] = "idle"
    /\ loc[p].user_id = u
    /\ ~verify_password(loc[p].password, loc[p].password_hash)

(* C1: from a fresh row, five consecutive wrong-password calls leave the   *)
(* principal locked, and a further authenticate_user call, whatever its    *)
(* password, returns None at once and changes neither the counter nor the  *)
(* lock flag.                                                              *)
C1_FiveFailuresLock ==
    /\ [](streak >= 5 => users[AliceId].is_locked)
    /\ [][\A p \in SeqProcs, password \in LoginPasswords :
            (streak >= 5 /\ SeqAuthFetch(p, Alice, password))
            => /\ ret'[p] = RetNone
               /\ pc'[p] = "idle"
               /\ users'[AliceId].failed_login_attempts
                    = users[AliceId].failed_login_attempts
               /\ users'[AliceId].is_locked = users[AliceId].is_locked]_vars

(* the sixth call, made with the right password, has been refused *)
C1_Witness ==
    /\ streak = 6
    /\ users[AliceId].is_locked
    /\ users[AliceId].failed_login_attempts = 5
    /\ \E p \in SeqProcs : ret[p] = RetNone /\ pc[p] = "idle"

(* C2: is_locked goes from false to true in a step exactly when that step  *)
(* is a failed password verification whose post-increment counter is >= 5  *)
(* (on a row not yet locked); no other step sets it.                       *)
C2_LockSetOnlyByFifthFailure ==
    [][\A u \in DOMAIN users :
         (~users[u].is_locked /\ users'[u].is_locked)
         <=> /\ ~users[u].is_locked
             /\ \E p \in Procs : /\ FailedVerification(p, u)
                                 /\ loc[p].failed_attempts + 1 >= 5]_vars

C2_Witness ==
    /\ users[AliceId].is_locked
    /\ users[AliceId].failed_login_attempts = 5
    /\ \E p \in Procs : ret[p] = RetNone /\ pc[p] = "idle"

(* C3: is_locked goes from true to false only in a reset_password step; no *)
(* authenticate_user step clears it.                                       *)
C3_OnlyResetUnlocks ==
    [][\A u \in DOMAIN users :
         (users[u].is_locked /\ ~users'[u].is_locked)
         => \E p \in Procs : /\ pc[p] = "reset_update"
                               /\ pc'[p] = "idle"
                               /\ loc[p].resolved_user_id = u]_vars

(* C4: when ParN parallel wrong-password calls, all started before any     *)
(* commits, have finished, is_locked went from false to true exactly once  *)
(* and the counter is ParN.                                                *)
C4_NoLostUpdates ==
    (\A p \in ParProcs : Finished(p))
    => /\ lock_transitions = 1
       /\ users[AliceId].failed_login_attempts = ParN

(* C5: once five failed verifications have committed since the last        *)
(* successful login or password reset, the principal is locked (so every   *)
(* later call is refused).                                                 *)
C5_LockedAfterFiveCommitted ==
    committed_fails >= 5 => users[AliceId].is_locked

(* C6: the step that ends an authenticate_user call in success sets the    *)
(* counter to 0 and leaves is_locked as it was.                            *)
C6_SuccessResetsCounter ==
    [][\A p \in Procs :
         (pc[p] = "auth_verify" /\ pc'[p] = "idle" /\ ret'[p].tag = "user")
         => /\ users'[loc[p].user_id].failed_login_attempts = 0
            /\ users'[loc[p].user_id].is_locked
                 = users[loc[p].user_id].is_locked]_vars

(* a call with the right password has read the row and is about to commit  *)
(* while the stored counter is between 1 and 4                             *)
C6_Witness ==
    \E p \in Procs :
       /\ pc[p] = "auth_verify"
       /\ verify_password(loc[p].password, loc[p].password_hash)
       /\ users[loc[p].user_id].failed_login_attempts \in 1..4
       /\ loc[p].failed_attempts \in 1..4

(* C7: the step that ends a reset_password call which passed its checks    *)
(* (compliant password, existing principal) returns True and leaves        *)
(* is_locked false, the counter 0, must_change_password as the argument    *)
(* says and the new password stored, whatever the row was before.          *)
C7_ResetClearsLockout ==
    [][\A p \in Procs :
         (pc[p] = "reset_update" /\ pc'[p] = "idle")
         => LET u == loc[p].resolved_user_id IN
            /\ ret'[p] = RetBool(TRUE)
            /\ ~users'[u].is_locked
            /\ users'[u].failed_login_attempts = 0
            /\ users'[u].must_change_password = loc[p].must_change_password
            /\ verify_password(loc[p].new_password, users'[u].password_hash)]_vars

(* a reset with the force-change argument set has succeeded (nothing else  *)
(* sets must_change_password)                                              *)
C7_Witness ==
    /\ users[AliceId].must_change_password
    /\ ~users[AliceId].is_locked
    /\ users[AliceId].failed_login_attempts = 0
    /\ verify_password(PwB, users[AliceId].password_hash)
    /\ \E p \in Procs : ret[p] = RetBool(TRUE)

(* C8: the step that ends a change_password call in success stores the new *)
(* hash, clears must_change_password and leaves the counter 0 and          *)
(* is_locked false.                                                        *)
C8_ChangeResetsLockout ==
    [][\A p \in Procs :
         (pc[p] = "change_verify" /\ pc'[p] = "idle" /\ ret'[p] = RetBool(TRUE))
         => /\ verify_password(loc[p].new_password,
                               users'[loc[p].user_id].password_hash)
            /\ ~users'[loc[p].user_id].must_change_password
            /\ users'[loc[p].user_id].failed_login_attempts = 0
            /\ ~users'[loc[p].user_id].is_locked]_vars

(* C9: a change_password call returns True only if the old password        *)
(* verifies against the hash the call read; when it does not verify, the   *)
(* call returns False and the hash, must_change_password, the counter and  *)
(* is_locked stay as they are.                                             *)
C9_ChangeNeedsOldPassword ==
    [][\A p \in Procs :
         (pc[p] = "change_verify" /\ pc'[p] = "idle")
         => LET u == loc[p].user_id
                matches == verify_password(loc[p].old_password, loc[p].current_hash)
            IN /\ ret'[p] = RetBool(TRUE) => matches
               /\ ~matches =>
                    /\ ret'[p] = RetBool(FALSE)
                    /\ users'[u].password_hash = users[u].password_hash
                    /\ users'[u].must_change_password = users[u].must_change_password
                    /\ users'[u].failed_login_attempts = users[u].failed_login_attempts
                    /\ users'[u].is_locked = users[u].is_locked]_vars

(* a call whose old password does not match the stored hash it read is     *)
(* about to finish                                                         *)
C9_Witness ==
    \E p \in Procs :
       /\ pc[p] = "change_verify"
       /\ loc[p].current_hash = users[loc[p].user_id].password_hash
       /\ ~verify_password(loc[p].old_password, loc[p].current_hash)

(* C10: the wrapped handler runs exactly when the current user's role ids  *)
(* and the required roles intersect; an empty set on either side denies.   *)
C10_AnyOfRoles ==
    gate.outcome # "none"
    => /\ (gate.outcome = "ran")
            <=> (gate.user_role_ids \cap gate.required_roles # {})
       /\ gate.user_role_ids = {} => gate.outcome # "ran"
       /\ gate.required_roles = {} => gate.outcome # "ran"

(* a user holding one of two required roles got through *)
C10_Witness ==
    /\ gate.outcome = "ran"
    /\ Cardinality(gate.required_roles) = 2
    /\ Cardinality(gate.user_role_ids \cap gate.required_roles) = 1
    /\ ~(gate.required_roles \subseteq gate.user_role_ids)


(* the two login refusals that stand for invalid credentials *)
InvalidCredentials ==
    {Branch("authenticate_user", "not_found"),
     Branch("authenticate_user", "invalid_password")}

(* C11: a login refused for an unknown username and a login refused for a  *)
(* wrong password of a known, active, unlocked user give the caller the    *)
(* same return value and the same message: whenever a caller's call ends   *)
(* in one of the two branches and its previous call ended in one of them,  *)
(* the value and the message are those of the previous call.               *)
C11_UnknownUserLikeWrongPassword ==
    [][\A p \in SeqProcs :
         (cause[p] \in InvalidCredentials /\ cause'[p] \in InvalidCredentials)
         => /\ ret'[p] = ret[p]
            /\ flash'[p] = flash[p]]_vars

(* a wrong password was refused after the refusal of an unknown username   *)
(* had been logged                                                         *)
C11_Witness ==
    \E p \in SeqProcs :
       /\ cause[p] = Branch("authenticate_user", "invalid_password")
       /\ users[AliceId].failed_login_attempts > 0
       /\ \E i \in 1..Len(user_activity_log) :
             user_activity_log[i].error_message = "User not found"

(* the outcome the spec names for a refusal branch *)
RefusalClass(why) ==
    IF why \in {"not_found", "invalid_password"} THEN "InvalidCredentials" ELSE why

Refusals == {"not_found", "invalid_password", "inactive", "locked"}

(* C12: the caller of authenticate_user can tell a locked account, an      *)
(* inactive account and invalid credentials apart: when two calls in a row *)
(* are refused for reasons of different classes, the values returned       *)
(* differ.                                                                  *)
C12_LockedInactiveDistinguishable ==
    [][\A p \in SeqProcs :
         ( /\ cause[p].op = "authenticate_user"
           /\ cause'[p].op = "authenticate_user"
           /\ cause[p].why \in Refusals
           /\ cause'[p].why \in Refusals
           /\ RefusalClass(cause[p].why) # RefusalClass(cause'[p].why) )
         => ret'[p] # ret[p]]_vars

(* the refusals that are the caller's doing, not the store's *)
PolicyFailures ==
    {"not_found", "invalid_password", "inactive", "locked", "required",
     "weak_password", "invalid_current_password", "already_assigned",
     "unknown_role"}

FaultSurfacedOps ==
    {"authenticate_user", "change_password", "reset_password", "assign_role"}

(* C13: a fault of the store during authenticate_user, change_password,    *)
(* reset_password or assign_role reaches the caller as an outcome that     *)
(* differs from a credential or policy failure: when two calls in a row of *)
(* the same operation end one in a store fault and the other in a          *)
(* credential or policy failure, the values returned differ.               *)
C13_StoreFaultDistinguishable ==
    [][\A p \in SeqProcs :
         ( /\ cause'[p].op \in FaultSurfacedOps
           /\ cause[p].op = cause'[p].op
           /\ \/ cause[p].why = "store_fault" /\ cause'[p].why \in PolicyFailures
              \/ cause[p].why \in PolicyFailures /\ cause'[p].why = "store_fault" )
         => ret'[p] # ret[p]]_vars

(* what each operation returns when it succeeds *)
IsSuccessValue(op, value) ==
    CASE op = "authenticate_user" -> value.tag = "user"
      [] op = "create_user" -> value.tag = "id"
      [] OTHER -> value = RetBool(TRUE)

(* C14: a failure to write the activity log never changes the outcome of   *)
(* the operation logged: whatever becomes of the log write, a call that    *)
(* went through its success branch returns its success value, and a call   *)
(* that was refused returns its failure value; the rows of users and       *)
(* user_roles are written before the log call and do not depend on it.     *)
C14_LogFailureKeepsOutcome ==
    \A p \in SeqProcs :
       cause[p].op \notin {"none", "login"} =>
          /\ IsSuccessValue(cause[p].op, ret[p])
                <=> cause[p].why \in {"success", "no_updates"}
          /\ cause[p] = Branch("create_user", "success")
                => ret[p].val \in DOMAIN users

RoleAssignedRows(user_id, role_id) ==
    {i \in 1..Len(user_activity_log) :
        /\ user_activity_log[i].activity_type = "ROLE_ASSIGNED"
        /\ user_activity_log[i].user_id = user_id
        /\ user_activity_log[i].activity_description = <<"Role assigned", role_id>>}

(* C15: assign_role for a (user, role) pair that an earlier assign_role    *)
(* recorded returns False, leaves user_roles with that one record of the   *)
(* pair and writes no row to the activity log, so that at most one         *)
(* ROLE_ASSIGNED row for the pair ever exists; and a call that returned    *)
(* True recorded the pair.                                                 *)
C15_SecondAssignFails ==
    [][\A p \in SeqProcs, user_id \in UserIdArgs, role_id \in AssignRoleIds,
          db_ok \in BOOLEAN, log_res \in LogOutcomes :
         AssignRoleLogged(p, user_id, role_id, db_ok, log_res) =>
            /\ <<user_id, role_id>> \in user_roles =>
                  /\ ret'[p] = RetBool(FALSE)
                  /\ user_roles' = user_roles
                  /\ user_activity_log' = user_activity_log
            /\ ret'[p] = RetBool(TRUE) =>
                  /\ <<user_id, role_id>> \notin user_roles
                  /\ <<user_id, role_id>> \in user_roles'
            /\ Cardinality(RoleAssignedRows(user_id, role_id)') <= 1]_vars

(* the second assign_role of the same pair has been refused, after the     *)
(* first had returned True and written its row                             *)
C15_Witness ==
    \E p \in SeqProcs, pair \in user_roles :
       /\ cause[p] = Branch("assign_role", "already_assigned")
       /\ ret[p] = RetBool(FALSE)
       /\ calls = 2
       /\ Cardinality(RoleAssignedRows(pair[1], pair[2])) = 1

(* C16: delete_user removes nothing: it leaves every row of users and of   *)
(* user_roles in place and only sets is_active to false; a call of         *)
(* authenticate_user for an inactive user, whatever the password, returns  *)
(* None and leaves the users table, failed_login_attempts and is_locked    *)
(* included, as it was; and is_active goes back to true only in a call of  *)
(* update_user with is_active = True.                                      *)
C16_DeleteIsSoft ==
    [][/\ \A p \in SeqProcs, user_id \in UserIdArgs, db_ok \in BOOLEAN,
             log_res \in LogOutcomes :
            DeleteUserLogged(p, user_id, db_ok, log_res) =>
               /\ DOMAIN users' = DOMAIN users
               /\ user_roles' = user_roles
               /\ ret'[p] = RetBool(TRUE) =>
                     users' = [users EXCEPT ![user_id].is_active = FALSE]
       /\ \A p \in SeqProcs, username \in LoginNames, password \in LoginPasswords,
             db_ok \in BOOLEAN, log_res \in LogOutcomes :
            ( /\ LoginFetch(p, username, password, db_ok, log_res)
              /\ username # "" /\ password # PwEmpty
              /\ \E u \in IdsByUsername(username) : ~users[u].is_active )
            => /\ ret'[p] = RetNone
               /\ pc'[p] = "idle"
               /\ users' = users
               /\ user_roles' = user_roles
       /\ \A u \in DOMAIN users :
            (~users[u].is_active /\ users'[u].is_active) =>
               \E p \in SeqProcs, db_ok \in BOOLEAN, log_res \in LogOutcomes :
                  UpdateUserLogged(p, u, <<>>, <<TRUE>>, db_ok, log_res)]_vars

(* alice, deleted, has been refused a login with her correct password; her *)
(* row and her role are still there, counter and lock untouched            *)
C16_Witness ==
    \E p \in SeqProcs :
       /\ cause[p] = Branch("authenticate_user", "inactive")
       /\ ret[p] = RetNone
       /\ AliceId \in DOMAIN users
       /\ ~users[AliceId].is_active
       /\ users[AliceId].failed_login_attempts = 0
       /\ ~users[AliceId].is_locked
       /\ <<AliceId, "ADMIN">> \in user_roles
       /\ \E i \in 1..Len(user_activity_log) :
             user_activity_log[i].error_message = "Account is inactive"

(* the caller's last call stored a new password, by operation op, and     *)
(* returned True                                                           *)
HasSetPassword(p, op) ==
    /\ cause[p].op = op
    /\ cause[p].why = "success"
    /\ ret[p] = RetBool(TRUE)

(* what C17 asks of the login that follows a call that stored a password:  *)
(* for the user's name and a store that answers it gets to the password    *)
(* check, where the new password is accepted and the previous one, when    *)
(* it is another one, refused                                              *)
LoginAfterSet(p) ==
    LET set == cause[p]
        name == users[set.user_id].username
    IN  /\ \A password \in LoginPasswords, log_res \in LogOutcomes :
             (LoginFetch(p, name, password, TRUE, log_res)
                /\ users[set.user_id].is_active)
             => pc'[p] = "auth_verify"
        /\ \A log_res \in LogOutcomes \ {"connection_lost"} :
             (LoginCommit(p, TRUE, log_res) /\ loc[p].user_id = set.user_id)
             => /\ loc[p].password = set.new_password => ret'[p].tag = "user"
                /\ ( /\ loc[p].password # set.new_password
                     /\ verify_password(loc[p].password, set.previous_hash) )
                   => ret'[p] = RetNone

(* C17: after a successful reset_password or change_password of an active *)
(* user, locked or not, authenticate_user with the new password succeeds   *)
(* and authenticate_user with the previous password fails.                 *)
C17_NewPasswordAuthenticates ==
    [][\A p \in SeqProcs :
         (HasSetPassword(p, "reset_password") \/ HasSetPassword(p, "change_password"))
         => LoginAfterSet(p)]_vars

(* the same for reset_password alone, which does clear the lock *)
ResetRecovers ==
    [][\A p \in SeqProcs :
         HasSetPassword(p, "reset_password") => LoginAfterSet(p)]_vars

(* the five rules of the policy, in the order of the docstring of         *)
(* validate_password_strength, each with the reason given for it           *)
PolicyRules(password) ==
    << [holds |-> Len(password) >= 8,
        reason |-> "Password must be at least 8 characters long"],
       [holds |-> \E i \in DOMAIN password : password[i] \in Upper,
        reason |-> "Password must contain at least one uppercase letter"],
       [holds |-> \E i \in DOMAIN password : password[i] \in Lower,
        reason |-> "Password must contain at least one lowercase letter"],
       [holds |-> \E i \in DOMAIN password : password[i] \in Digit,
        reason |-> "Password must contain at least one digit"],
       [holds |-> \E i \in DOMAIN password : password[i] \in Special,
        reason |-> "Password must contain at least one special character"] >>

Violated(password) ==
    {i \in 1..5 : ~PolicyRules(password)[i].holds}

(* C18: for a password that breaks the policy validate_password_strength   *)
(* returns False with the reason of the first rule broken, in the order    *)
(* length, uppercase, lowercase, digit, symbol, whatever other rules are   *)
(* broken too; it returns (True, "") exactly when no rule is broken.       *)
C18_FirstViolatedRule ==
    \A p \in SeqProcs :
       ret[p].tag = "tuple" =>
          LET password == loc[p].password
              broken == Violated(password)
          IN  /\ broken = {} <=> ret[p].val = <<TRUE, "">>
              /\ broken # {} =>
                    \E first \in broken :
                       /\ \A i \in broken : first <= i
                       /\ ret[p].val = <<FALSE, PolicyRules(password)[first].reason>>

(* a password long enough that has neither a lowercase letter nor a digit  *)
(* was refused for the lowercase letter                                    *)
C18_Witness ==
    \E p \in SeqProcs :
       /\ ret[p].tag = "tuple"
       /\ Violated(loc[p].password) = {3, 4}
       /\ ret[p].val = <<FALSE, "Password must contain at least one lowercase letter">>

(* C19: a stored hash that is not a bcrypt blob fails closed: whatever the *)
(* password supplied, the password check of authenticate_user ends, with   *)
(* the store up, as a wrong password does: None is returned, the failed    *)
(* attempt is counted on the row, and the LOGIN_FAILED row of an invalid   *)
(* password is what is handed to the activity log.                         *)
C19_CorruptHashFailsClosed ==
    [][\A p \in SeqProcs, log_res \in LogOutcomes :
         (LoginCommit(p, TRUE, log_res) /\ ~WellFormed(loc[p].password_hash))
         => /\ ret'[p] = RetNone
            /\ pc'[p] = "idle"
            /\ cause'[p] = Branch("authenticate_user", "invalid_password")
            /\ users'[loc[p].user_id].failed_login_attempts
                  = loc[p].failed_attempts + 1
            /\ log_res = "written" =>
                  /\ Len(user_activity_log') = Len(user_activity_log) + 1
                  /\ LET row == user_activity_log'[Len(user_activity_log')]
                     IN  /\ row.activity_type = "LOGIN_FAILED"
                         /\ row.user_id = loc[p].user_id
                         /\ row.error_message = "Invalid password"]_vars

(* a login against the corrupted hash has been refused and counted, the    *)
(* LOGIN_FAILED row written                                                *)
C19_Witness ==
    \E p \in SeqProcs :
       /\ cause[p] = Branch("authenticate_user", "invalid_password")
       /\ ret[p] = RetNone
       /\ ~WellFormed(users[AliceId].password_hash)
       /\ users[AliceId].failed_login_attempts = 1
       /\ Len(user_activity_log) = 1
       /\ user_activity_log[1].activity_type = "LOGIN_FAILED"
       /\ user_activity_log[1].error_message = "Invalid password"

C21_ProtectedOpNeedsRole ==
    (gate.outcome # "none" /\ gate.invoked # "none") =>
       /\ gate.is_authenticated
       /\ gate.user_role_ids \cap RequiredRoles(gate.route) # {}

(* reset_password was reached by a user whose only role is REPORT_ADMIN *)
C21_Witness ==
    /\ gate.outcome = "ran"
    /\ gate.invoked = "reset_password"
    /\ gate.user_role_ids = {"REPORT_ADMIN"}


(* C22: authenticate_user looks the user up, then checks activation, then  *)
(* the lock, and only then the password: an unknown username is refused as *)
(* not found, an inactive row as inactive even when it is locked too, an   *)
(* active locked row as locked; none of these three gets to the password   *)
(* check and none changes a row of users or user_roles.  An active,        *)
(* unlocked row goes on to the password check.                             *)
C22_LoginCheckOrder ==
    [][\A p \in SeqProcs, username \in LoginNames, password \in LoginPasswords,
          log_res \in LogOutcomes :
         LoginFetch(p, username, password, TRUE, log_res) =>
            LET ids == IdsByUsername(username)
                refused(why) ==
                    /\ cause'[p] = Branch("authenticate_user", why)
                    /\ ret'[p] = RetNone
                    /\ pc'[p] = "idle"
                    /\ users' = users
                    /\ user_roles' = user_roles
            IN  /\ ids = {} => refused("not_found")
                /\ \A u \in ids :
                     /\ ~users[u].is_active => refused("inactive")
                     /\ (users[u].is_active /\ users[u].is_locked) => refused("locked")
                     /\ (users[u].is_active /\ ~users[u].is_locked)
                           => pc'[p] = "auth_verify" /\ users' = users]_vars

(* alice, locked and then deactivated, was refused as inactive; her row is *)
(* as it was                                                               *)
C22_Witness ==
    \E p \in SeqProcs :
       /\ cause[p] = Branch("authenticate_user", "inactive")
       /\ ~users[AliceId].is_active
       /\ users[AliceId].is_locked
       /\ users[AliceId].failed_login_attempts = LockThreshold
       /\ \E i \in 1..Len(user_activity_log) :
             user_activity_log[i].error_message = "Account is inactive"


(* what C23 asks of the step in which a call of authenticate_user for       *)
(* username returns, store and log being available                          *)
OneLoginRecord(p, username) ==
    /\ Len(user_activity_log') = Len(user_activity_log) + 1
    /\ SubSeq(user_activity_log', 1, Len(user_activity_log)) = user_activity_log
    /\ LET row == user_activity_log'[Len(user_activity_log')]
           ids == {u \in DOMAIN users' : users'[u].username = username}
       IN  /\ row.username = username
           /\ row.activity_type \in {"LOGIN_SUCCESS", "LOGIN_FAILED"}
           /\ row.activity_type = "LOGIN_SUCCESS" <=> ret'[p].tag = "user"
           /\ row.success <=> ret'[p].tag = "user"
           /\ row.user_id = NoneId <=> ids = {}
           /\ row.user_id # NoneId => row.user_id \in ids
           /\ cause'[p].why = "invalid_password" =>
                 row.activity_description =
                    <<"Invalid password (Attempt)",
                      users'[row.user_id].failed_login_attempts>>

(* C23: with the store and the log available, a call of authenticate_user  *)
(* appends exactly one row to the activity log: LOGIN_SUCCESS when and     *)
(* only when it returns the user, LOGIN_FAILED otherwise; the row has no   *)
(* user id when and only when no user has the username; the row of a wrong  *)
(* password carries the attempt count as incremented.                      *)
C23_OneRecordPerLogin ==
    [][\A p \in SeqProcs :
         /\ \A username \in LoginNames, password \in LoginPasswords :
              ( /\ LoginFetch(p, username, password, TRUE, "written")
                /\ pc'[p] = "idle" )
              => OneLoginRecord(p, username)
         /\ LoginCommit(p, TRUE, "written") => OneLoginRecord(p, loc[p].username)]_vars

(* a wrong password was logged with its attempt count after an earlier     *)
(* record of the same user                                                 *)
C23_Witness ==
    \E p \in SeqProcs :
       /\ cause[p] = Branch("authenticate_user", "invalid_password")
       /\ Len(user_activity_log) = 2
       /\ user_activity_log[2].activity_type = "LOGIN_FAILED"
       /\ user_activity_log[2].user_id = AliceId
       /\ user_activity_log[2].activity_description = <<"Invalid password (Attempt)", 1>>
       /\ users[AliceId].failed_login_attempts = 1


(* C24: the rows of one user appear in the activity log in the order in    *)
(* which their logins committed: a LOGIN_FAILED row never stands after the *)
(* LOGIN_SUCCESS row of a login that committed later than the failure.     *)
C24_LogFollowsCommitOrder ==
    \A i \in 1..Len(user_activity_log) : \A j \in 1..Len(user_activity_log) :
       ( /\ i < j
         /\ user_activity_log[i].activity_type = "LOGIN_SUCCESS"
         /\ user_activity_log[j].activity_type = "LOGIN_FAILED"
         /\ user_activity_log[i].user_id = user_activity_log[j].user_id )
       => user_activity_log[j].commit_no > user_activity_log[i].commit_no


(* the columns of users that authenticate_user is said to leave alone *)
KeepsCredentials(row_before, row_after) ==
    /\ row_after.must_change_password = row_before.must_change_password
    /\ row_after.password_hash = row_before.password_hash
    /\ row_after.is_active = row_before.is_active
    /\ row_after.username = row_before.username
    /\ row_after.email = row_before.email

(* C25: a successful authenticate_user returns the user's id, exactly the  *)
(* roles assigned to the user that are active in the roles table, and the  *)
(* stored must_change_password; and no step of authenticate_user changes   *)
(* must_change_password, password_hash, is_active, user_roles or roles.    *)
C25_LoginReturnsActiveRoles ==
    [][\A p \in SeqProcs, log_res \in LogOutcomes :
         /\ (LoginCommit(p, TRUE, log_res) /\ ret'[p].tag = "user") =>
               LET user_id == loc[p].user_id IN
               /\ ret'[p].user_id = user_id
               /\ ret'[p].roles =
                     {r \in RoleIds : /\ <<user_id, r>> \in user_roles
                                      /\ roles[r].is_active}
               /\ ret'[p].must_change_password = users[user_id].must_change_password
         /\ \A db_ok \in BOOLEAN :
              ( \/ LoginCommit(p, db_ok, log_res)
                \/ \E username \in LoginNames, password \in LoginPasswords :
                      LoginFetch(p, username, password, db_ok, log_res) )
              => /\ user_roles' = user_roles
                 /\ roles' = roles
                 /\ DOMAIN users' = DOMAIN users
                 /\ \A u \in DOMAIN users : KeepsCredentials(users[u], users'[u])]_vars

(* alice logged in after a reset that forces a change: she is given the    *)
(* flag and her one active role, not the deactivated one                   *)
C25_Witness ==
    \E p \in SeqProcs :
       /\ cause[p] = Branch("authenticate_user", "success")
       /\ ret[p].tag = "user"
       /\ ret[p].roles = {"REPORT_ADMIN"}
       /\ ret[p].must_change_password
       /\ <<AliceId, "REPORT_MANAGER">> \in user_roles
       /\ ~roles["REPORT_MANAGER"].is_active


(* the step changes no row of users and no role assignment other than      *)
(* those of the users in S, and adds or removes no user                     *)
OnlyTouches(S) ==
    /\ DOMAIN users' = DOMAIN users
    /\ \A u \in DOMAIN users \ S : users'[u] = users[u]
    /\ \A pair \in (user_roles' \ user_roles) \cup (user_roles \ user_roles') :
          pair[1] \in S

(* the users a call names by username or, without a username, by id *)
NamedBy(username, user_id) ==
    IF username # NoneName
    THEN {u \in DOMAIN users : users[u].username = username}
    ELSE {user_id}

(* C26: a step of authenticate_user, change_password, reset_password or    *)
(* assign_role changes nothing of any user but the one the call names: the *)
(* step that reads changes nothing and resolves the user named; the step   *)
(* that writes changes that user only.                                     *)
C26_OneUserPerCall ==
    [][\A p \in SeqProcs :
         /\ (pc[p] = "idle" /\ ~(cause'[p].op = "assign_role" /\ calls' # calls))
               => users' = users /\ user_roles' = user_roles
         /\ (pc[p] = "idle" /\ pc'[p] = "auth_verify")
               => loc'[p].user_id \in NamedBy(loc'[p].username, NoneId)
         /\ (pc[p] = "idle" /\ pc'[p] = "change_verify") =>
               \A user_id \in TwoIds, old \in LoginPasswords, new \in NewPasswords :
                  ChangeFetchLogged(p, user_id, old, new, TRUE)
                     => loc'[p].user_id = user_id
         /\ (pc[p] = "idle" /\ pc'[p] = "reset_update") =>
               \A username \in TwoNames \cup {NoneName}, user_id \in TwoIds \cup {NoneId},
                  new \in NewPasswords :
                  ResetFetchLogged(p, username, user_id, new, System, TRUE, TRUE)
                     => loc'[p].resolved_user_id \in NamedBy(username, user_id)
         /\ pc[p] = "auth_verify" => OnlyTouches({loc[p].user_id})
         /\ pc[p] = "change_verify" => OnlyTouches({loc[p].user_id})
         /\ pc[p] = "reset_update" => OnlyTouches({loc[p].resolved_user_id})
         /\ (pc[p] = "idle" /\ cause'[p].op = "assign_role" /\ calls' # calls) =>
               \A user_id \in TwoIds, role_id \in AssignRoleIds, db_ok \in BOOLEAN,
                  log_res \in LogOutcomes :
                  AssignRoleLogged(p, user_id, role_id, db_ok, log_res)
                     => OnlyTouches({user_id})]_vars

(* bob's password was reset and bob was given a role; alice's row is as it *)
(* was at the start                                                        *)
C26_Witness ==
    \E p \in SeqProcs :
       /\ calls = 2
       /\ users[BobId].password_hash # BobRow.password_hash
       /\ <<BobId, "ADMIN">> \in user_roles
       /\ users[AliceId] = InitRow
       /\ \A pair \in user_roles : pair[1] = BobId


(* the step in which caller p's call of one of the operations ops returns *)
ReturnsFrom(p, ops) == calls' # calls /\ cause'[p].op \in ops

(* C27: activation and lockout are independent: update_user and            *)
(* delete_user never change is_locked or failed_login_attempts of any      *)
(* user, and authenticate_user, change_password and reset_password never   *)
(* change is_active of any user.                                           *)
C27_ActivationIndependentOfLock ==
    [][\A p \in SeqProcs : \A u \in DOMAIN users :
         /\ ReturnsFrom(p, {"update_user", "delete_user"}) =>
               /\ users'[u].is_locked = users[u].is_locked
               /\ users'[u].failed_login_attempts = users[u].failed_login_attempts
         /\ ( \/ ReturnsFrom(p, {"authenticate_user", "change_password",
                                 "reset_password"})
              \/ pc'[p] \in {"auth_verify", "change_verify", "reset_update"} )
            => users'[u].is_active = users[u].is_active]_vars

(* alice, locked, was deleted and then reactivated by update_user: she is  *)
(* active and still locked                                                 *)
C27_Witness ==
    \E p \in SeqProcs :
       /\ cause[p] = Branch("update_user", "success")
       /\ Len(user_activity_log) = 2
       /\ user_activity_log[1].activity_type = "USER_DELETED"
       /\ user_activity_log[2].activity_type = "USER_UPDATED"
       /\ users[AliceId].is_active
       /\ users[AliceId].is_locked
       /\ users[AliceId].failed_login_attempts = LockThreshold

(* alice, locked and deleted, had her password reset: she is unlocked and  *)
(* still inactive                                                          *)
ResetKeepsInactive ==
    \E p \in SeqProcs :
       /\ cause[p].op = "reset_password" /\ cause[p].why = "success"
       /\ ~users[AliceId].is_active
       /\ ~users[AliceId].is_locked


(* C28: change_password with a new password that fails the policy returns *)
(* False in its first step, whatever the state of the store and whether    *)
(* or not the old password is right: no row of users is written and no     *)
(* row of user_activity_log is appended.                                   *)
C28_WeakChangeTouchesNothing ==
    [][\A p \in SeqProcs :
         ( /\ pc[p] = "idle"
           /\ \/ pc'[p] = "change_verify"
              \/ ReturnsFrom(p, {"change_password"}) )
         => \A user_id \in UserIdArgs, old \in LoginPasswords, db_ok \in BOOLEAN,
               new \in {n \in NewPasswords : ~validate_password_strength(n)[1]} :
               ChangeFetchLogged(p, user_id, old, new, db_ok) =>
                  /\ pc'[p] = "idle"
                  /\ ret'[p] = RetBool(FALSE)
                  /\ cause'[p] = Branch("change_password", "weak_password")
                  /\ users' = users
                  /\ user_activity_log' = user_activity_log]_vars

(* the first call was a change_password refused for its weak new password *)
C28_Witness ==
    \E p \in SeqProcs :
       /\ cause[p] = Branch("change_password", "weak_password")
       /\ ret[p] = RetBool(FALSE)
       /\ calls = 1
       /\ users = (AliceId :> InitRow)
       /\ user_activity_log = <<>>


(* reset_password called by either administrator, with every kind of      *)
(* argument it refuses: no new password, a weak one, a user that does not  *)
(* exist, neither a username nor an id.                                    *)
Admins == {System, "admin"}
ResetPasswordArgs == {PwEmpty, PwWeak, PwB}
ResetNameArgs == {NoneName, Alice, Nobody}
ResetIdArgs == {NoneId, AliceId, GhostId}

NextReset ==
    \E p \in SeqProcs, db_ok \in BOOLEAN, log_res \in LogOutcomes :
      \/ \E username \in ResetNameArgs, user_id \in ResetIdArgs,
            new \in ResetPasswordArgs, changed_by \in Admins :
            /\ ResetFetchLogged(p, username, user_id, new, changed_by, TRUE, db_ok)
            /\ Step(p)
      \/ ResetCommitLogged(p, db_ok, log_res) /\ Step(p)
      \/ \E password \in LoginPasswords :
            /\ LoginFetch(p, Alice, password, db_ok, log_res)
            /\ Step(p)
      \/ LoginCommit(p, db_ok, log_res) /\ Step(p)

SpecReset == InitLocked /\ [][NextReset]_vars

ResetRefusals == {"required", "weak_password", "not_found"}

(* the rows of type PASSWORD_RESET in the log *)
ResetRecords(log) == {i \in 1..Len(log) : log[i].activity_type = "PASSWORD_RESET"}

(* C29: reset_password takes no old password; a call that fails because   *)
(* the new password is missing or weak or because the user does not exist  *)
(* leaves users unchanged and appends no PASSWORD_RESET row; a             *)
(* PASSWORD_RESET row is appended only by the step that has updated the    *)
(* row, and it names the administrator of that call.                       *)
C29_ResetFailureTouchesNothing ==
    [][\A p \in SeqProcs :
         /\ ( /\ ReturnsFrom(p, {"reset_password"})
              /\ cause'[p].why \in ResetRefusals )
            => /\ ret'[p] = RetBool(FALSE)
               /\ users' = users
               /\ user_activity_log' = user_activity_log
         /\ ( /\ pc[p] \in {"idle", "reset_update"}
              /\ ResetRecords(user_activity_log') # ResetRecords(user_activity_log) )
            => /\ pc[p] = "reset_update"
               /\ LET l == loc[p]
                      row == user_activity_log'[Len(user_activity_log')]
                  IN  /\ verify_password(l.new_password,
                                         users'[l.resolved_user_id].password_hash)
                      /\ ~users'[l.resolved_user_id].is_locked
                      /\ users'[l.resolved_user_id].failed_login_attempts = 0
                      /\ row.user_id = l.resolved_user_id
                      /\ row.activity_type = "PASSWORD_RESET"
                      /\ row.activity_description = <<"Password reset by", l.changed_by>>
         /\ ( /\ pc[p] = "reset_update"
              /\ ResetCommitLogged(p, TRUE, "written") )
            => /\ ret'[p] = RetBool(TRUE)
               /\ ResetRecords(user_activity_log') # ResetRecords(user_activity_log)
      ]_vars

(* alice, whose password was PwA, was reset to PwB by "admin" in the      *)
(* second call: the one PASSWORD_RESET row names "admin"                   *)
C29_Witness ==
    \E p \in SeqProcs :
       /\ cause[p].op = "reset_password" /\ cause[p].why = "success"
       /\ ret[p] = RetBool(TRUE)
       /\ calls = 2
       /\ verify_password(PwB, users[AliceId].password_hash)
       /\ Len(user_activity_log) = 1
       /\ user_activity_log[1].activity_type = "PASSWORD_RESET"
       /\ user_activity_log[1].activity_description = <<"Password reset by", "admin">>


(* create_user called with every combination of missing, malformed, weak   *)
(* and already-used arguments; update_user changes which email is in use.  *)
CreateNameArgs == {"", Alice, Bob}
CreateEmailArgs == {<<>>, EmailA, EmailB, EmailBad}
CreatePasswordArgs == {PwEmpty, PwWeak, PwA}

CreateRoleArgs == CreateRoles \cup {{"ADMIN", "NO_SUCH_ROLE"}}

NextCreate ==
    \E p \in SeqProcs, db_ok \in BOOLEAN, log_res \in LogOutcomes :
      \/ \E username \in CreateNameArgs, email \in CreateEmailArgs,
            password \in CreatePasswordArgs, role_ids \in CreateRoleArgs :
            /\ CreateFetch(p, username, email, password, role_ids, FALSE, db_ok)
            /\ Step(p)
      \/ \E commit_ok \in BOOLEAN :
            /\ CreateCommit(p, db_ok, commit_ok, log_res)
            /\ Step(p)
      \/ \E email \in EmailArgs :
            /\ UpdateUserLogged(p, AliceId, email, <<>>, db_ok, log_res)
            /\ Step(p)

SpecCreate == Init /\ [][NextCreate]_vars

(* the validations in the order the claim gives, and what each one rejects *)
ValidationOrder ==
    <<"required", "invalid_email", "weak_password", "username_exists", "email_exists">>

Rejects(rule, username, email, password) ==
    CASE rule = "required" -> username = "" \/ email = <<>> \/ password = PwEmpty
      [] rule = "invalid_email" -> ~validate_email(email)
      [] rule = "weak_password" -> ~validate_password_strength(password)[1]
      [] rule = "username_exists" -> \E u \in DOMAIN users : users[u].username = username
      [] rule = "email_exists" -> \E u \in DOMAIN users : users[u].email = email

(* positions of the rules that reject the arguments *)
Rejecting(username, email, password) ==
    {i \in DOMAIN ValidationOrder : Rejects(ValidationOrder[i], username, email, password)}

FirstRejecting(username, email, password) ==
    CHOOSE i \in Rejecting(username, email, password) :
       \A j \in Rejecting(username, email, password) : i <= j

(* the two uniqueness rules need the store *)
NeedsStore == {"username_exists", "email_exists"}

(* C30: create_user whose arguments fail a validation returns None in its  *)
(* first step and creates no row of users, no row of user_roles and no     *)
(* USER_CREATED row; the validation that refuses is the first, in the      *)
(* order required fields, email format, password policy, username          *)
(* uniqueness, email uniqueness, that the arguments fail.                  *)
C30_FailedValidationCreatesNothing ==
    [][\A p \in SeqProcs :
         ( /\ pc[p] = "idle"
           /\ \/ pc'[p] = "create_insert"
              \/ ReturnsFrom(p, {"create_user"}) )
         => \A username \in CreateNameArgs, email \in CreateEmailArgs,
               password \in CreatePasswordArgs, role_ids \in CreateRoles,
               db_ok \in BOOLEAN :
               ( /\ Rejecting(username, email, password) # {}
                 /\ CreateFetch(p, username, email, password, role_ids, FALSE, db_ok) )
               => LET rule == ValidationOrder[FirstRejecting(username, email, password)]
                  IN  /\ pc'[p] = "idle"
                      /\ ret'[p] = RetNone
                      /\ users' = users
                      /\ user_roles' = user_roles
                      /\ user_activity_log' = user_activity_log
                      /\ (db_ok \/ rule \notin NeedsStore) => cause'[p].why = rule
      ]_vars

(* bob was created, and a second create_user was refused for its username: *)
(* there are still two users and one USER_CREATED row                      *)
C30_Witness ==
    \E p \in SeqProcs :
       /\ cause[p] = Branch("create_user", "username_exists")
       /\ ret[p] = RetNone
       /\ calls = 2
       /\ Cardinality(DOMAIN users) = 2
       /\ Len(user_activity_log) = 1
       /\ user_activity_log[1].activity_type = "USER_CREATED"


---------------------------------------------------------------------------
(* Invariants of the lockout fields under concurrent callers *)

(* C31: in every reachable state, whatever the interleaving of concurrent  *)
(* authenticate_user, change_password and reset_password calls, the        *)
(* counter of every user is between 0 and 5, and a user that is not locked *)
(* has a counter of at most 4.                                             *)
C31_CounterInRange ==
    \A u \in DOMAIN users :
       /\ users[u].failed_login_attempts >= 0
       /\ users[u].failed_login_attempts <= LockThreshold
       /\ ~users[u].is_locked => users[u].failed_login_attempts <= LockThreshold - 1

(* alice is locked at the threshold while a concurrent login that read her *)
(* row earlier has not yet written                                         *)
C31_Witness ==
    /\ users[AliceId].is_locked
    /\ users[AliceId].failed_login_attempts = LockThreshold
    /\ \E p \in Procs : pc[p] = "auth_verify"


(* Two callers whose authenticate_user calls against alice, with the right *)
(* or a wrong password, interleave; nothing else is called.                *)
NextAuth ==
    \E p \in Procs :
      \/ \E password \in LoginPasswords :
            AuthFetch(p, Alice, password) /\ UNCHANGED <<hist, logvars>>
      \/ AuthCommit(p) /\ UNCHANGED <<hist, logvars>>

SpecAuth == Init /\ [][NextAuth]_vars

(* C32: in every reachable state, under any interleaving of concurrent     *)
(* authenticate_user calls on one user, is_locked implies                  *)
(* failed_login_attempts >= 5: a successful login that read the row before *)
(* the lock was set does not leave the user locked with a counter of 0.    *)
C32_LockedImpliesThreshold ==
    \A u \in DOMAIN users :
       users[u].is_locked => users[u].failed_login_attempts >= LockThreshold


(* C33: failed attempts against the old password do not count against a    *)
(* reset one: when reset_password has committed between the row read and   *)
(* the counter write of a failing authenticate_user (the row now holds     *)
(* another hash than the one read, counter 0, unlocked), the write leaves  *)
(* the user unlocked with a counter of at most 1.                          *)
C33_StaleCountNotWrittenBack ==
    [][\A p \in Procs :
         ( /\ pc[p] = "auth_verify"
           /\ pc'[p] = "idle"
           /\ ~verify_password(loc[p].password, loc[p].password_hash)
           /\ users[loc[p].user_id].password_hash # loc[p].password_hash
           /\ users[loc[p].user_id].failed_login_attempts = 0
           /\ ~users[loc[p].user_id].is_locked )
         => /\ ~users'[loc[p].user_id].is_locked
            /\ users'[loc[p].user_id].failed_login_attempts <= 1]_vars


(* C34: once delete_user (or update_user with is_active = False) has       *)
(* committed for a user, or the user is locked, a request made under that  *)
(* user's session gets no authenticated user from the loader and is sent   *)
(* to the login page by login_required and role_required.                  *)
C34_DeactivatedSessionRefused ==
    [][\A p \in Procs, session_user_id \in SessionIds :
         ( /\ users' = users
           /\ session_user_id \in DOMAIN users
           /\ (~users[session_user_id].is_active \/ users[session_user_id].is_locked) )
         => \A route \in Routes, method \in Methods, form_ok \in BOOLEAN :
               RouteRequest(p, session_user_id, route, method, form_ok) =>
                  /\ ~gate'.is_authenticated
                  /\ gate'.outcome = "login"]_vars


(* C35: create_user returns a user id only if the user was committed       *)
(* holding every role of the requested list; a requested role that is      *)
(* unknown or cannot be inserted makes the whole creation fail.            *)
C35_CreatedWithEveryRole ==
    [][\A p \in SeqProcs :
         ( /\ pc[p] = "create_insert"
           /\ pc'[p] = "idle"
           /\ ret'[p].tag = "id" )
         => /\ ret'[p].val \in DOMAIN users'
            /\ \A r \in loc[p].role_ids : <<ret'[p].val, r>> \in user_roles']_vars

(* C36: every USER_CREATED row of user_activity_log names a user that is   *)
(* in users: no such row is left by a create_user call whose transaction   *)
(* did not commit and that returned None.                                  *)
C36_CreatedRecordHasUser ==
    \A i \in 1..Len(user_activity_log) :
       user_activity_log[i].activity_type = "USER_CREATED"
          => user_activity_log[i].user_id \in DOMAIN users


(* the operations of the claim below, and the value each returns on failure *)
RolledBackOps ==
    {"authenticate_user", "change_password", "reset_password",
     "assign_role", "update_user", "delete_user"}

FailureValue(op) == IF op = "authenticate_user" THEN RetNone ELSE RetBool(FALSE)

(* An oracledb.Error reached the except clause of caller p's call: raised   *)
(* by one of the call's own statements (branch store_fault), or by the log *)
(* call after the call's work was done (the success branch that returns    *)
(* the failure value).                                                     *)
StoreErrorIn(p) ==
    \/ cause'[p].why = "store_fault"
    \/ cause'[p].why = "success" /\ ret'[p] = FailureValue(cause'[p].op)

(* An error raised by a statement of the call itself is rolled back: users *)
(* and user_roles stay and the call returns its failure value; so a right  *)
(* password whose UPDATE or role SELECT fails does not reset the counter.  *)
StatementFaultRollsBack ==
    [][\A p \in SeqProcs :
         ( /\ ReturnsFrom(p, RolledBackOps)
           /\ cause'[p].why = "store_fault" )
         => /\ users' = users
            /\ user_roles' = user_roles
            /\ ret'[p] = FailureValue(cause'[p].op)]_vars

(* C37: a store error raised at any point inside authenticate_user,        *)
(* change_password, reset_password, assign_role, update_user or            *)
(* delete_user leaves users and user_roles as they were before the call,   *)
(* and the call returns its failure value.                                 *)
C37_StoreErrorRollsBack ==
    [][\A p \in SeqProcs :
         ( /\ ReturnsFrom(p, RolledBackOps)
           /\ StoreErrorIn(p) )
         => /\ users' = users
            /\ user_roles' = user_roles
            /\ ret'[p] = FailureValue(cause'[p].op)]_vars


===========================================================================
